---- MODULE Spec2Model ----
(***************************************************************************)
(* Model of the quote-image generator MakeItQuote (src/lib/miq.py).        *)
(*                                                                         *)
(* The views of the module share the same operators:                       *)
(*   - CreateQuote / SaveQuote: one whole call per step, used for the      *)
(*     properties of the caches, the error values and the returned image;  *)
(*   - the P* actions: one call unfolded into the steps of the caller      *)
(*     thread and of the tasks of the ThreadPoolExecutor, used for the     *)
(*     properties of scheduling, joins and failure propagation, and, with  *)
(*     the sub-draws of the text lines completing in any order, for what   *)
(*     they write to the image;                                            *)
(*   - ApplyFit / ApplyWrap: _calculate_optimal_font_size and _wrap_text   *)
(*     applied to texts and canvases;                                      *)
(*   - the GetFont* actions: _get_font called by two threads.              *)
(***************************************************************************)
EXTENDS Integers, Sequences, FiniteSets, TLC

(***************************************************************************)
(* Program constants.                                                      *)
(***************************************************************************)
MaxWorkers == 4
RandomBgCacheSize == 32
RandomFontCacheSize == 32
GradientCacheSize == 16
MinFontSize == 20
FontSizeStep == 5
Margin == 100
LineGap == 10
OutlineRadius == 2
DefaultFontSize == 90
DefaultShadowStrength == 3
WatermarkShadowStrength == 1
MinCreditSize == 12

(***************************************************************************)
(* Bounds of the model.                                                    *)
(***************************************************************************)
MaxRenders == 2
MaxErrCalls == 1
NumSizes == 18
MaxPoolCalls == 1
MaxRepeats == 1

NoneV == "None"

(***************************************************************************)
(* Python values used by the model.                                        *)
(***************************************************************************)
Min(a, b) == IF a <= b THEN a ELSE b
Max(a, b) == IF a >= b THEN a ELSE b

RECURSIVE SumSeq(_)
SumSeq(s) == IF s = << >> THEN 0 ELSE Head(s) + SumSeq(Tail(s))

SetMax(S) == CHOOSE x \in S : \A y \in S : y <= x

(* An exception is the chain of its causes, outermost first. *)
Exc(type, at) == << [type |-> type, at |-> at] >>
Wrapped(at, cause) == << [type |-> "ValueError", at |-> at] >> \o cause
NoErr == << >>

(***************************************************************************)
(* functools.lru_cache: entries in order of use, least recent first.       *)
(***************************************************************************)
LruKeys(c) == { c[i].k : i \in 1..Len(c) }
LruHit(c, k) == k \in LruKeys(c)
LruIndex(c, k) == CHOOSE i \in 1..Len(c) : c[i].k = k
LruValue(c, k) == c[LruIndex(c, k)].v
LruDrop(c, i) == SubSeq(c, 1, i - 1) \o SubSeq(c, i + 1, Len(c))
LruTouch(c, k) == LruDrop(c, LruIndex(c, k)) \o << c[LruIndex(c, k)] >>
LruInsert(c, k, v, maxsize) ==
    LET full == Len(c) >= maxsize
        kept == IF full THEN Tail(c) ELSE c
    IN  kept \o << [k |-> k, v |-> v] >>

(***************************************************************************)
(* Text: a sequence of chunks as textwrap splits it.  A chunk of n         *)
(* characters is the number n for a word of n letters as wide as "A",      *)
(* 100 + n for a word of n letters twice as wide, 200 + n for the part of  *)
(* a compound word up to and including its hyphen (n - 1 letters and "-";  *)
(* the rest of the word is the next chunk), 300 + n for a run of n blanks. *)
(* The single blank between two words is the chunk 0.                      *)
(***************************************************************************)
ChunkKind(ch) ==
    IF ch = 0 THEN "blank"
    ELSE CASE ch \div 100 = 0 -> "letter"
           [] ch \div 100 = 1 -> "wide"
           [] ch \div 100 = 2 -> "hyphen"
           [] OTHER -> "blank"
ChunkLen(ch) == IF ch = 0 THEN 1 ELSE ch % 100
MakeChunk(kind, n) ==
    CASE kind = "letter" -> n
      [] kind = "wide" -> 100 + n
      [] kind = "hyphen" -> 200 + n
      [] OTHER -> IF n = 1 THEN 0 ELSE 300 + n

RECURSIVE TextLen(_)
TextLen(chunks) ==
    IF chunks = << >> THEN 0 ELSE ChunkLen(Head(chunks)) + TextLen(Tail(chunks))

IsBlank(ch) == ChunkKind(ch) = "blank"

(* Mutant of ChunkPrefix: the whole chunk is appended to the line *)
ChunkPrefixWhole(ch, end) == ch

(* chunk[:end] and chunk[end:] *)
ChunkPrefix(ch, end) ==
    MakeChunk(IF ChunkKind(ch) = "hyphen" THEN "letter" ELSE ChunkKind(ch), end)
ChunkSuffix(ch, end) == MakeChunk(ChunkKind(ch), ChunkLen(ch) - end)

(* The inner loop of TextWrapper._wrap_chunks: chunks that still fit. *)
RECURSIVE TakeFitting(_, _, _, _)
TakeFitting(chunks, line, curLen, width) ==
    IF chunks # << >> /\ curLen + ChunkLen(Head(chunks)) <= width
    THEN TakeFitting(Tail(chunks), Append(line, Head(chunks)),
                     curLen + ChunkLen(Head(chunks)), width)
    ELSE [rest |-> chunks, line |-> line, curLen |-> curLen]

(* Mutant of HandleLongWord: break_long_words = False *)
HandleLongWordUnbroken(chunks, line, curLen, width) ==
    [rest |-> IF line = << >> THEN Tail(chunks) ELSE chunks,
     line |-> IF line = << >> THEN << Head(chunks) >> ELSE line,
     emptyPiece |-> FALSE]

(* TextWrapper._handle_long_word with break_long_words = True: the chunk   *)
(* is cut where the line is full.  (The hyphen of a chunk is its last      *)
(* character, beyond the cut.)                                             *)
HandleLongWord(chunks, line, curLen, width) ==
    LET spaceLeft == IF width < 1 THEN 1 ELSE width - curLen
        word == Head(chunks)
        end == Max(0, Min(spaceLeft, ChunkLen(word)))
        rest == IF ChunkLen(word) - end > 0
                THEN << ChunkSuffix(word, end) >> \o Tail(chunks)
                ELSE Tail(chunks)
    IN  [rest |-> rest,
         line |-> IF end > 0 THEN Append(line, ChunkPrefix(word, end)) ELSE line,
         emptyPiece |-> end = 0]

(* TextWrapper._wrap_chunks for width > 0. *)
RECURSIVE WrapChunks(_, _, _)
WrapChunks(chunks, width, lines) ==
    IF chunks = << >> THEN lines
    ELSE
      LET start == IF IsBlank(Head(chunks)) /\ lines # << >>
                   THEN Tail(chunks) ELSE chunks
          fit == TakeFitting(start, << >>, 0, width)
          long == fit.rest # << >> /\ ChunkLen(Head(fit.rest)) > width
          hl == HandleLongWord(fit.rest, fit.line, fit.curLen, width)
          rest == IF long THEN hl.rest ELSE fit.rest
          line0 == IF long THEN hl.line ELSE fit.line
          (* a trailing blank is dropped, unless an empty piece of a long *)
          (* word was appended after it and is dropped in its place       *)
          line == IF line0 # << >> /\ IsBlank(line0[Len(line0)])
                     /\ ~(long /\ hl.emptyPiece)
                  THEN SubSeq(line0, 1, Len(line0) - 1) ELSE line0
      IN  WrapChunks(rest, width, IF line # << >> THEN Append(lines, line) ELSE lines)

(* MakeItQuote._wrap_text: textwrap.wrap, failures rewrapped. *)
WrapText(text, width) ==
    IF width <= 0
    THEN [err |-> Wrapped("wrap_text", Exc("ValueError", "textwrap")), lines |-> << >>]
    ELSE [err |-> NoErr, lines |-> WrapChunks(text, width, << >>)]

(* font.getbbox(s)[2] of the fixture font: a fixed advance of half the     *)
(* point size per character.                                               *)
GlyphWidth(size) == size \div 2
ChunkWidth(ch, size) ==
    ChunkLen(ch) * (IF ChunkKind(ch) = "wide" THEN 2 ELSE 1) * GlyphWidth(size)
RECURSIVE TextWidth(_, _)
TextWidth(chunks, size) ==
    IF chunks = << >> THEN 0
    ELSE ChunkWidth(Head(chunks), size) + TextWidth(Tail(chunks), size)
WrapWidth(canvasWidth, size) == (canvasWidth - Margin) \div Max(1, GlyphWidth(size))

(***************************************************************************)
(* The asset directories and the files the requests name.                  *)
(***************************************************************************)
BgFileNames == {"a.png", "B.JPG", "c.jpeg"}
FontFileNames == {"f.ttf", "G.OTF"}

(* os.listdir: the directory also holds a file that is no asset *)
ListBackgrounds(dir) == dir \cup {"notes.txt"}
ListFonts(dir) == dir \cup {"readme.md"}

FileExt(f) ==
    CASE f = "a.png" -> "png"
      [] f = "B.JPG" -> "JPG"
      [] f = "c.jpeg" -> "jpeg"
      [] f = "notes.txt" -> "txt"
      [] f = "readme.md" -> "md"
      [] f = "f.ttf" -> "ttf"
      [] f = "G.OTF" -> "OTF"
      [] f = "x.ttf" -> "ttf"
      [] f = "missing.ttf" -> "ttf"
      [] f = "out.png" -> "png"
      [] f = "out.JPG" -> "JPG"
      [] f = "out.jpeg" -> "jpeg"
      [] OTHER -> ""

(* str.lower() on the extensions above *)
Lower(ext) ==
    CASE ext = "JPG" -> "jpg"
      [] ext = "OTF" -> "otf"
      [] OTHER -> ext

(* c.jpeg is a file Image.open cannot decode; every font file is loadable *)
Decodable(f) == f \in {"a.png", "B.JPG"}
NativeSize(f) == << 640, 480 >>
UserImageSize == << 50, 50 >>

BackgroundCandidates(dir) ==
    { f \in ListBackgrounds(dir) : Lower(FileExt(f)) \in {"png", "jpg", "jpeg"} }
FontCandidates(dir) ==
    { f \in ListFonts(dir) : Lower(FileExt(f)) \in {"ttf", "otf"} }

FontFileExists(path, dir) == path \in dir \/ path = "x.ttf"

(***************************************************************************)
(* Style presets and the lookups create_quote makes in them.               *)
(***************************************************************************)
White == << 255, 255, 255 >>

StylePresets ==
    [ modern  |-> [font_size |-> 90, text_color |-> White, shadow_opacity |-> 180,
                   gradient_overlay |-> TRUE, rounded_corners |-> FALSE,
                   overlay_opacity |-> 120, shadow_strength |-> 3],
      minimal |-> [font_size |-> 80, text_color |-> White, shadow_opacity |-> 120,
                   gradient_overlay |-> FALSE, rounded_corners |-> FALSE,
                   overlay_opacity |-> 100, shadow_strength |-> 2],
      bold    |-> [font_size |-> 100, text_color |-> << 255, 240, 200 >>,
                   shadow_opacity |-> 200,
                   gradient_overlay |-> TRUE, rounded_corners |-> FALSE,
                   overlay_opacity |-> 140, shadow_strength |-> 4] ]

(* The style argument: a preset name, or one of the explicit dicts below. *)
StyleNames == {"modern", "minimal", "bold", "neon"}
StyleDicts == {"{}", "{rounded}"}
StyleArgs == StyleNames \cup StyleDicts

EmptyDict == [f \in {} |-> 0]
ExplicitDict(arg) ==
    IF arg = "{rounded}"
    THEN [rounded_corners |-> TRUE, gradient_overlay |-> TRUE, font_size |-> 40]
    ELSE EmptyDict

(* Mutant of ResolveStyle: a name that is no preset gives no settings *)
ResolveStyleStrict(arg) ==
    IF arg \in DOMAIN StylePresets THEN StylePresets[arg] ELSE ExplicitDict(arg)

(* create_quote, lines 288-291 *)
ResolveStyle(arg) ==
    IF arg \in StyleNames
    THEN IF arg \in DOMAIN StylePresets THEN StylePresets[arg] ELSE StylePresets["modern"]
    ELSE ExplicitDict(arg)

(* dict.get(key, default) *)
DictGet(d, key, default) == IF key \in DOMAIN d THEN d[key] ELSE default

StyleFontSize(st) == DictGet(st, "font_size", DefaultFontSize)
StyleOverlayOpacity(st) == DictGet(st, "overlay_opacity", 160)
StyleGradient(st) == DictGet(st, "gradient_overlay", FALSE)
StyleRounded(st) == DictGet(st, "rounded_corners", FALSE)
StyleShadowStrength(st) == DictGet(st, "shadow_strength", DefaultShadowStrength)

(***************************************************************************)
(* Images: an object identity and the properties the pipeline depends on.  *)
(* A new object is named by the call that allocates it and its role there. *)
(***************************************************************************)
NoImage == [id |-> << 0, "none" >>, size |-> << 0, 0 >>, alpha |-> "none"]
NewImage(serial, role, size, alpha) ==
    [id |-> << serial, role >>, size |-> size, alpha |-> alpha]

(* Mutant of Resize: width and height exchanged *)
ResizeSwapped(img, size, serial) ==
    NewImage(serial, "resized", << size[2], size[1] >>, img.alpha)

(* Image.resize: a new image of exactly the requested size *)
Resize(img, size, serial) == NewImage(serial, "resized", size, img.alpha)

(* Mutant of AlphaComposite: composited in place onto the second image *)
AlphaCompositeInPlace(a, b, serial, role) ==
    IF a.size # b.size
    THEN [err |-> Exc("ValueError", "alpha_composite"), img |-> NoImage]
    ELSE [err |-> NoErr, img |-> b]

(* Image.alpha_composite(a, b): a new image; the sizes must agree *)
AlphaComposite(a, b, serial, role) ==
    IF a.size # b.size
    THEN [err |-> Exc("ValueError", "alpha_composite"), img |-> NoImage]
    ELSE [err |-> NoErr, img |-> NewImage(serial, role, a.size, a.alpha)]

(* _apply_rounded_corners: a copy of the image with the corner mask as alpha *)
ApplyRoundedCorners(img, radius, serial) ==
    NewImage(serial, "rounded", img.size, "rounded")

CornerRadius(size) == (Min(size[1], size[2]) * 5) \div 100

(***************************************************************************)
(* The state of the generator instance and of its environment.             *)
(***************************************************************************)
VARIABLES
    bgDir,       \* files in backgrounds_dir
    fontDir,     \* files in fonts_dir
    bgPin,       \* lru_cache of _get_random_background
    fontPin,     \* lru_cache of _get_random_font
    gradLru,     \* lru_cache of _create_gradient_overlay
    gradDict,    \* self._gradient_cache
    fontCache,   \* self._font_cache
    gradStat,    \* per gradient key: generator calls, requests, bitmaps served
    randoms,     \* number of random.choice calls made for backgrounds and fonts,
                 \* and whether a listing has found no file
    pinned,      \* the first background and font that random.choice selected
    files,       \* output files written by save_quote
    returned,    \* identities of the images create_quote has returned
    serial,      \* number of create_quote calls started
    last,        \* the last call and its outcome
    pc,          \* position of the thread that called create_quote
    cur,         \* the arguments and local variables of the call in flight
    queue,       \* work queue of self.executor, oldest first
    prep,        \* futures of prepare_background, prepare_fonts, apply_enhancements
    lineFut,     \* futures of draw_text_line, in the order of text_futures
    fx,          \* the calls of _add_text_with_effects_parallel, by owner
    pixels,      \* what draw.text has written to the image, by pixel
    flight,      \* the sub-draws that workers have taken and not completed
    applied,     \* the last application of a function of the module, with its result
    loading,     \* per thread that is inside _get_font: its position and its key
    loads,       \* per font key: the calls of ImageFont.truetype made by _get_font
    shutdown,    \* self.executor._shutdown, set by __del__
    calls,       \* the create_quote calls that run at the same time, by calling thread
    instances,   \* number of MakeItQuote instances constructed
    conn,        \* DatabaseManager._connection
    prohibited,  \* the rows of the table prohibited_channels
    checked,     \* the last command invocation and what its check returned
    panels,      \* RolePanel.panels: the panel dicts made so far and the ids that are keys
    dataFile,    \* the content of data/role_panels.json
    cmds         \* the role-panel commands started, in order

cacheVars == << bgPin, fontPin, gradLru, gradDict, fontCache, gradStat, randoms, pinned >>
envVars == << bgDir, fontDir >>
seqVars == << files, returned, serial, last >>
botVars == << conn, prohibited, checked >>
panelVars == << panels, dataFile, cmds >>
laterVars == << shutdown, calls, instances, botVars, panelVars >>
sideVars == << applied, loading, loads, laterVars >>
poolVars == << pc, cur, queue, prep, lineFut, fx, pixels, flight, sideVars >>

Self == 1

(* The caches as one value that the stages of a call thread through. *)
Store == [bgDir |-> bgDir, fontDir |-> fontDir, bgPin |-> bgPin, fontPin |-> fontPin,
          gradLru |-> gradLru, gradDict |-> gradDict, fontCache |-> fontCache,
          gradStat |-> gradStat, randoms |-> randoms, pinned |-> pinned]

SetStore(S) ==
    /\ bgPin' = S.bgPin
    /\ fontPin' = S.fontPin
    /\ gradLru' = S.gradLru
    /\ gradDict' = S.gradDict
    /\ fontCache' = S.fontCache
    /\ gradStat' = S.gradStat
    /\ randoms' = S.randoms
    /\ pinned' = S.pinned

(* What random.choice may return for a listing (NoneV when it is not called) *)
Picks(cands) == IF cands = {} THEN {NoneV} ELSE cands

(* The undecorated _get_random_background and _get_random_font *)
RandomAsset(cands, pick, at) ==
    IF cands = {}
    THEN [err |-> Wrapped(at, Exc("FileNotFoundError", at)), val |-> NoneV]
    ELSE [err |-> NoErr, val |-> pick]

(* Mutant of GetRandomBackground: the lru_cache decorator left out *)
GetRandomBackgroundUncached(S, inst, pick) ==
    LET r == RandomAsset(BackgroundCandidates(S.bgDir), pick, "get_random_background")
    IN  IF r.err # NoErr THEN [err |-> r.err, val |-> NoneV, S |-> S]
        ELSE [err |-> NoErr, val |-> r.val,
              S |-> [S EXCEPT
                !.randoms.bg = Min(@ + 1, 2),
                !.pinned.bg = IF @ = NoneV THEN r.val ELSE @]]

(* Mutant of GetRandomBackground: the failure is memoized like a result *)
GetRandomBackgroundMemoFailure(S, inst, pick) ==
    IF LruHit(S.bgPin, inst)
    THEN [err |-> IF LruValue(S.bgPin, inst) = NoneV
                  THEN Wrapped("get_random_background",
                               Exc("FileNotFoundError", "get_random_background"))
                  ELSE NoErr,
          val |-> LruValue(S.bgPin, inst),
          S |-> [S EXCEPT !.bgPin = LruTouch(S.bgPin, inst)]]
    ELSE LET r == RandomAsset(BackgroundCandidates(S.bgDir), pick, "get_random_background")
         IN  IF r.err # NoErr
             THEN [err |-> r.err, val |-> NoneV,
                   S |-> [S EXCEPT
                     !.bgPin = LruInsert(S.bgPin, inst, NoneV, RandomBgCacheSize),
                     !.randoms.bgMiss = TRUE]]
             ELSE [err |-> NoErr, val |-> r.val,
                   S |-> [S EXCEPT
                     !.bgPin = LruInsert(S.bgPin, inst, r.val, RandomBgCacheSize),
                     !.randoms.bg = Min(@ + 1, 2),
                     !.pinned.bg = IF @ = NoneV THEN r.val ELSE @]]

(* _get_random_background under lru_cache(maxsize=32), keyed by the instance *)
GetRandomBackground(S, inst, pick) ==
    IF LruHit(S.bgPin, inst)
    THEN [err |-> NoErr, val |-> LruValue(S.bgPin, inst),
          S |-> [S EXCEPT !.bgPin = LruTouch(S.bgPin, inst)]]
    ELSE LET r == RandomAsset(BackgroundCandidates(S.bgDir), pick, "get_random_background")
         IN  IF r.err # NoErr
             THEN [err |-> r.err, val |-> NoneV, S |-> [S EXCEPT !.randoms.bgMiss = TRUE]]
             ELSE [err |-> NoErr, val |-> r.val,
                   S |-> [S EXCEPT
                     !.bgPin = LruInsert(S.bgPin, inst, r.val, RandomBgCacheSize),
                     !.randoms.bg = Min(@ + 1, 2),
                     !.pinned.bg = IF @ = NoneV THEN r.val ELSE @]]

(* _get_random_font under lru_cache(maxsize=32), keyed by the instance *)
GetRandomFont(S, inst, pick) ==
    IF LruHit(S.fontPin, inst)
    THEN [err |-> NoErr, val |-> LruValue(S.fontPin, inst),
          S |-> [S EXCEPT !.fontPin = LruTouch(S.fontPin, inst)]]
    ELSE LET r == RandomAsset(FontCandidates(S.fontDir), pick, "get_random_font")
         IN  IF r.err # NoErr
             THEN [err |-> r.err, val |-> NoneV, S |-> [S EXCEPT !.randoms.fontMiss = TRUE]]
             ELSE [err |-> NoErr, val |-> r.val,
                   S |-> [S EXCEPT
                     !.fontPin = LruInsert(S.fontPin, inst, r.val, RandomFontCacheSize),
                     !.randoms.font = Min(@ + 1, 2),
                     !.pinned.font = IF @ = NoneV THEN r.val ELSE @]]

(* ImageFont.truetype succeeds on an existing font file and a size > 0 *)
FontLoads(S, path, size) == FontFileExists(path, S.fontDir) /\ size > 0

(* _get_font *)
GetFont(S, path, size) ==
    IF << path, size >> \in S.fontCache THEN [err |-> NoErr, S |-> S]
    ELSE IF FontLoads(S, path, size)
    THEN [err |-> NoErr, S |-> [S EXCEPT !.fontCache = @ \cup {<< path, size >>}]]
    ELSE [err |-> Wrapped("get_font", Exc("OSError", "truetype")), S |-> S]

MaxLineWidth(lines, size) == SetMax({ TextWidth(lines[i], size) : i \in 1..Len(lines) })

(* line 267: the two tests of a candidate size.  max_height * 0.7 is the   *)
(* float nearest to 7 * max_height / 10, which is that number for the      *)
(* heights used here.                                                      *)
FitsWidth(lines, size, maxWidth) == MaxLineWidth(lines, size) <= maxWidth - Margin

FitsHeightInverted(n, size, maxHeight) == 10 * n * (size + LineGap) >= 7 * maxHeight

FitsHeight(n, size, maxHeight) == 10 * n * (size + LineGap) <= 7 * maxHeight

(* line 270 *)
NextCandidateHalved(current) == current \div 2

NextCandidate(current) == current - FontSizeStep

(* _calculate_optimal_font_size: the loop from current_size down *)
RECURSIVE FontSizeLoop(_, _, _, _, _, _)
FontSizeLoop(S, text, maxWidth, maxHeight, path, current) ==
    IF current > MinFontSize
    THEN LET f == GetFont(S, path, current)
             w == WrapText(text, WrapWidth(maxWidth, current))
         IN  IF f.err # NoErr THEN [err |-> Wrapped("font_size", f.err), size |-> 0, S |-> f.S]
             ELSE IF w.err # NoErr THEN [err |-> Wrapped("font_size", w.err), size |-> 0, S |-> f.S]
             ELSE IF w.lines = << >>
               THEN [err |-> Wrapped("font_size", Exc("ValueError", "max")), size |-> 0, S |-> f.S]
             ELSE IF FitsWidth(w.lines, current, maxWidth)
                     /\ FitsHeight(Len(w.lines), current, maxHeight)
               THEN [err |-> NoErr, size |-> current, S |-> f.S]
             ELSE FontSizeLoop(f.S, text, maxWidth, maxHeight, path, NextCandidate(current))
    ELSE [err |-> NoErr, size |-> MinFontSize, S |-> S]

(* Mutant of CalculateOptimalFontSize: the loop starts from the default    *)
(* size, not from initial_size                                             *)
CalculateOptimalFontSizeFromDefault(S, text, maxWidth, maxHeight, path, initial) ==
    FontSizeLoop(S, text, maxWidth, maxHeight, path, DefaultFontSize)

(* _calculate_optimal_font_size: current_size = initial_size (line 254) *)
CalculateOptimalFontSize(S, text, maxWidth, maxHeight, path, initial) ==
    FontSizeLoop(S, text, maxWidth, maxHeight, path, initial)

(***************************************************************************)
(* Requests.                                                               *)
(***************************************************************************)
(* Output sizes; their heights h are ones for which the float h * 0.7 is   *)
(* the exact integer 7h/10.                                                *)
HeightOf(j) == IF j = 0 THEN 300 ELSE IF j = 1 THEN 1000 ELSE 200 + 100 * j
SizeOf(i) == << 100 + 100 * (i % 6), HeightOf(i \div 6) >>

(* the quotes: one word, two words, a blank only, four and five words *)
QuoteOne == << 5 >>
QuoteTwo == << 5, 0, 5 >>
QuoteBlank == << 0 >>
QuoteFour == << 5, 0, 5, 0, 5, 0, 5 >>
QuoteFive == << 5, 0, 5, 0, 5, 0, 5, 0, 5 >>

HasWord(text) == \E i \in 1..Len(text) : ~IsBlank(text[i])

TransparentBlack == << 0, 0, 0, 0 >>
ShadowBlack == << 0, 0, 0, 200 >>

(***************************************************************************)
(* Background preparation.                                                 *)
(***************************************************************************)
(* prepare_background up to the call of _enhance_background_parallel *)
OpenBackground(S, inst, backgroundImage, outputSize, pick, sn) ==
    IF backgroundImage = NoneV
    THEN LET r == GetRandomBackground(S, inst, pick)
         IN  IF r.err # NoErr
             THEN [err |-> r.err, img |-> NoImage, path |-> NoneV, S |-> r.S]
             ELSE IF r.val \in S.bgDir /\ Decodable(r.val)
             THEN [err |-> NoErr,
                   img |-> Resize(NewImage(sn, "opened", NativeSize(r.val), "opaque"),
                                  outputSize, sn),
                   path |-> r.val, S |-> r.S]
             ELSE [err |-> Wrapped("background_load", Exc("OSError", "Image.open")),
                   img |-> NoImage, path |-> r.val, S |-> r.S]
    ELSE [err |-> NoErr,
          img |-> Resize(NewImage(sn, "converted", UserImageSize, "opaque"),
                         outputSize, sn),
          path |-> NoneV, S |-> S]

GradientKey(size) == << size, TransparentBlack, ShadowBlack, "vertical" >>

(* the body of _create_gradient_overlay: a new bitmap of the given size *)
GenerateGradient(size, sn) == NewImage(sn, "gradient", size, "gradient")

CountCall(stat, key) ==
    IF key \in DOMAIN stat
    THEN [stat EXCEPT ![key].calls = Min(@ + 1, 2)]
    ELSE (key :> [calls |-> 1, reqs |-> 0, served |-> {}]) @@ stat

CountServed(stat, key, bitmap) ==
    [stat EXCEPT ![key].reqs = Min(@ + 1, 2), ![key].served = @ \cup {bitmap.id}]

(* _create_gradient_overlay under lru_cache(maxsize=16) *)
CreateGradientOverlay(S, inst, size, sn) ==
    LET key == << inst >> \o GradientKey(size)
    IN  IF LruHit(S.gradLru, key)
        THEN [val |-> LruValue(S.gradLru, key),
              S |-> [S EXCEPT !.gradLru = LruTouch(S.gradLru, key)]]
        ELSE LET bitmap == GenerateGradient(size, sn)
             IN  [val |-> bitmap,
                  S |-> [S EXCEPT
                    !.gradLru = LruInsert(S.gradLru, key, bitmap, GradientCacheSize),
                    !.gradStat = CountCall(S.gradStat, GradientKey(size))]]

(* Mutant of GradientFor: the dict is written on every call, not only when *)
(* the key is missing                                                      *)
GradientForUnguarded(S, inst, size, sn) ==
    LET dkey == << size, "vertical" >>
        made == CreateGradientOverlay(S, inst, size, sn)
        S1 == [made.S EXCEPT !.gradDict =
                 IF dkey \in DOMAIN S.gradDict
                 THEN [S.gradDict EXCEPT ![dkey] = made.val]
                 ELSE (dkey :> made.val) @@ S.gradDict]
        bitmap == S1.gradDict[dkey]
    IN  [val |-> bitmap,
         S |-> [S1 EXCEPT !.gradStat = CountServed(S1.gradStat, GradientKey(size), bitmap)]]

(* _enhance_background_parallel, lines 194-204: the gradient for a canvas *)
GradientFor(S, inst, size, sn) ==
    LET dkey == << size, "vertical" >>
        made == CreateGradientOverlay(S, inst, size, sn)
        S1 == IF dkey \in DOMAIN S.gradDict THEN S
              ELSE [made.S EXCEPT !.gradDict = (dkey :> made.val) @@ S.gradDict]
        bitmap == S1.gradDict[dkey]
    IN  [val |-> bitmap,
         S |-> [S1 EXCEPT !.gradStat = CountServed(S1.gradStat, GradientKey(size), bitmap)]]

(* _enhance_background_parallel after the enhancement task has been joined *)
EnhanceBackground(S, inst, background, style, sn) ==
    LET overlay == NewImage(sn, "overlay", background.size, "flat")
        flat == AlphaComposite(background, overlay, sn, "canvas")
    IN  IF flat.err # NoErr
        THEN [err |-> Wrapped("enhance_background", flat.err), img |-> NoImage, S |-> S]
        ELSE IF StyleGradient(style)
        THEN LET g == GradientFor(S, inst, flat.img.size, sn)
                 comp == AlphaComposite(flat.img, g.val, sn, "canvas")
             IN  IF comp.err # NoErr
                 THEN [err |-> Wrapped("enhance_background", comp.err),
                       img |-> NoImage, S |-> g.S]
                 ELSE [err |-> NoErr, img |-> comp.img, S |-> g.S]
        ELSE [err |-> NoErr, img |-> flat.img, S |-> S]

(* The log of a call (cur.log): the operations applied to the image of the call, in order,     *)
(* each with its parameter (0 when it has none).  Of the draw.text calls   *)
(* the log keeps the first.                                                *)
Logged(log, op, arg) == Append(log, << op, arg >>)
LogOps(log) == { log[i][1] : i \in 1..Len(log) }
LoggedText(log) == IF "text" \in LogOps(log) THEN log ELSE Logged(log, "text", 0)

(* Mutant of EnhanceLog: the image is blurred after the overlays *)
EnhanceLogBlurLast(log, style) ==
    LET flat == Logged(log, "overlay", StyleOverlayOpacity(style))
    IN  Logged(IF StyleGradient(style) THEN Logged(flat, "gradient", 0) ELSE flat, "blur", 0)

(* lines 187-205 as operations on the image: blur, flat overlay, gradient  *)
EnhanceLog(log, style) ==
    LET flat == Logged(Logged(log, "blur", 0), "overlay", StyleOverlayOpacity(style))
    IN  IF StyleGradient(style) THEN Logged(flat, "gradient", 0) ELSE flat

EnhancementFailure ==
    Wrapped("enhance_background", Exc("Exception", "apply_enhancements"))

(* prepare_fonts *)
PrepareFonts(S, path, size) ==
    LET q == GetFont(S, path, size)
        a == GetFont(q.S, path, size \div 2)
    IN  IF q.err # NoErr THEN q ELSE a

(***************************************************************************)
(* create_quote as one step.  A request is                                 *)
(*   [quote, author, size, fontPath, fontSize, background, style]          *)
(* with fontSize = NoSize and fontPath, background = NoneV for arguments   *)
(* left at None.  fontPick and bgPick are what random.choice would return, *)
(* fault names the drawing stage that raises (or "hang": the line tasks    *)
(* occupy every worker).                                                   *)
(***************************************************************************)
NoSize == 0
DrawFaults == {"none", "enhance", "mark", "line", "author", "watermark", "rounded", "hang"}

DrawFailure == Wrapped("text_effects", Exc("Exception", "draw.text"))

Outcome(kind, err, img, S, fontPath, bgPath, nlines) ==
    [kind |-> kind, err |-> err, img |-> img, S |-> S,
     fontPath |-> fontPath, bgPath |-> bgPath, nlines |-> nlines]

(* Mutant of Raised: the stage's exception passes through unwrapped *)
RaisedUnwrapped(err, S, fontPath, bgPath) ==
    Outcome("error", err, NoImage, S, fontPath, bgPath, 0)

(* create_quote, lines 422-423 *)
Raised(err, S, fontPath, bgPath) ==
    Outcome("error", Wrapped("create", err), NoImage, S, fontPath, bgPath, 0)

(* lines 339-420: the drawing stages on the prepared background *)
DrawStages(S, req, style, fontPath, fontSize, bgPath, background, fault, sn) ==
    LET w == WrapText(req.quote, WrapWidth(req.size[1], fontSize))
        markFont == GetFont(S, fontPath, 3 * fontSize)
        creditFont == GetFont(markFont.S, fontPath, Max(fontSize \div 5, MinCreditSize))
        n == Len(w.lines)
    IN  IF w.err # NoErr THEN Raised(w.err, S, fontPath, bgPath)
        ELSE IF markFont.err # NoErr THEN Raised(markFont.err, markFont.S, fontPath, bgPath)
        ELSE IF fault = "mark" THEN Raised(DrawFailure, markFont.S, fontPath, bgPath)
        ELSE IF fault = "hang" /\ n >= MaxWorkers
          THEN Outcome("hang", NoErr, NoImage, markFont.S, fontPath, bgPath, n)
        ELSE IF fault = "line" /\ n > 0
          THEN Raised(Wrapped("draw_text_line", DrawFailure), markFont.S, fontPath, bgPath)
        ELSE IF fault = "author" /\ req.author
          THEN Raised(Wrapped("author", DrawFailure), markFont.S, fontPath, bgPath)
        ELSE IF creditFont.err # NoErr
          THEN Raised(Wrapped("watermark", creditFont.err), creditFont.S, fontPath, bgPath)
        ELSE IF fault = "watermark"
          THEN Raised(Wrapped("watermark", DrawFailure), creditFont.S, fontPath, bgPath)
        ELSE IF StyleRounded(style)
          THEN IF fault = "rounded"
               THEN Raised(Wrapped("rounded_outer",
                             Wrapped("rounded_corners", Exc("Exception", "putalpha"))),
                           creditFont.S, fontPath, bgPath)
               ELSE Outcome("image", NoErr,
                            ApplyRoundedCorners(background, CornerRadius(req.size), sn),
                            creditFont.S, fontPath, bgPath, n)
        ELSE Outcome("image", NoErr, background, creditFont.S, fontPath, bgPath, n)

(* lines 299-337: the two preparation tasks and their joins *)
PrepareStages(S, inst, req, style, fontPath, fontSize, bgPick, fault, sn) ==
    LET opened == OpenBackground(S, inst, req.background, req.size, bgPick, sn)
        enhanced == IF opened.err # NoErr
                    THEN [err |-> opened.err, img |-> NoImage, S |-> opened.S]
                    ELSE IF fault = "enhance"
                    THEN [err |-> EnhancementFailure, img |-> NoImage, S |-> opened.S]
                    ELSE EnhanceBackground(opened.S, inst, opened.img, style, sn)
        fonts == PrepareFonts(enhanced.S, fontPath, fontSize)
    IN  IF enhanced.err # NoErr THEN Raised(enhanced.err, fonts.S, fontPath, opened.path)
        ELSE IF fonts.err # NoErr THEN Raised(fonts.err, fonts.S, fontPath, opened.path)
        ELSE DrawStages(fonts.S, req, style, fontPath, fontSize, opened.path,
                        enhanced.img, fault, sn)

(* lines 287-323: style, font path and font size *)
CreateRun(S, inst, req, fontPick, bgPick, fault, sn) ==
    LET style == ResolveStyle(req.style)
        font == IF req.fontPath # NoneV
                THEN [err |-> NoErr, val |-> req.fontPath, S |-> S]
                ELSE GetRandomFont(S, inst, fontPick)
        fit == IF req.fontSize # NoSize
               THEN [err |-> NoErr, size |-> req.fontSize, S |-> font.S]
               ELSE CalculateOptimalFontSize(font.S, req.quote, req.size[1], req.size[2],
                                             font.val, StyleFontSize(style))
    IN  IF font.err # NoErr THEN Raised(font.err, font.S, NoneV, NoneV)
        ELSE IF fit.err # NoErr THEN Raised(fit.err, fit.S, font.val, NoneV)
        ELSE PrepareStages(fit.S, inst, req, style, font.val, fit.size, bgPick, fault, sn)

(***************************************************************************)
(* Whole calls of create_quote and save_quote, and the environment.        *)
(***************************************************************************)
Request(quote, author, size, fontPath, fontSize, background, style) ==
    [quote |-> quote, author |-> author, size |-> size, fontPath |-> fontPath,
     fontSize |-> fontSize, background |-> background, style |-> style]

NoCall ==
    [op |-> "none", kind |-> "none", err |-> NoErr, img |-> NoImage,
     size |-> << 0, 0 >>, valid |-> FALSE, randomBg |-> FALSE, randomFont |-> FALSE,
     rounded |-> FALSE, fontPath |-> NoneV, bgPath |-> NoneV, nlines |-> 0,
     fault |-> "none", noBackground |-> FALSE, assetsGood |-> FALSE,
     bgPinned |-> FALSE, fontPinned |-> FALSE, path |-> NoneV, style |-> NoneV,
     ret |-> NoneV]

(* What is recorded of a call: its request, its outcome, and the           *)
(* situation of the asset directories and pins when it was made.           *)
CallRecord(op, req, out, fault, path) ==
    [op |-> op, kind |-> out.kind, err |-> out.err, img |-> out.img,
     size |-> req.size,
     valid |-> HasWord(req.quote) /\ req.size[1] > 0 /\ req.size[2] > 0,
     randomBg |-> req.background = NoneV,
     randomFont |-> req.fontPath = NoneV,
     rounded |-> StyleRounded(ResolveStyle(req.style)),
     fontPath |-> out.fontPath, bgPath |-> out.bgPath, nlines |-> out.nlines,
     fault |-> fault,
     style |-> req.style,
     noBackground |-> BackgroundCandidates(bgDir) = {},
     assetsGood |-> /\ BackgroundCandidates(bgDir) # {}
                    /\ \A f \in BackgroundCandidates(bgDir) : Decodable(f)
                    /\ FontCandidates(fontDir) # {}
                    /\ (LruHit(bgPin, Self) => LruValue(bgPin, Self) \in bgDir
                                               /\ Decodable(LruValue(bgPin, Self)))
                    /\ (LruHit(fontPin, Self) => LruValue(fontPin, Self) \in fontDir)
                    /\ req.fontPath \in {NoneV, "x.ttf"},
     bgPinned |-> LruHit(bgPin, Self),
     fontPinned |-> LruHit(fontPin, Self),
     path |-> path,
     ret |-> IF op = "save" /\ out.kind = "image" THEN path ELSE NoneV]

Blocked == last.kind = "hang"

(* create_quote is left with the outcome out *)
CreateDone(req, out, fault) ==
    /\ SetStore(out.S)
    /\ serial' = serial + 1
    /\ last' = CallRecord("create", req, out, fault, NoneV)
    /\ returned' = IF out.kind = "image" THEN Append(returned, out.img.id)
                   ELSE returned

(* create_quote(quote, author, output_size, font_path, font_size, ...,     *)
(*              background_image, _, style)                                *)
CreateQuote(req, fontPick, bgPick, fault) ==
    /\ ~Blocked
    /\ CreateDone(req, CreateRun(Store, Self, req, fontPick, bgPick, fault, serial + 1),
                  fault)
    /\ UNCHANGED << envVars, files, poolVars >>

(* Image.convert("RGB"): a new image without alpha channel *)
ConvertRGB(img, sn) == NewImage(sn, "rgb", img.size, "none")

(* Mutant of SavedImage: the image is written as create_quote returned it *)
SavedImageAsIs(img, path, sn) == img

(* the image that save_quote writes, lines 430-431 *)
SavedImage(img, path, sn) ==
    IF Lower(FileExt(path)) \in {"jpg", "jpeg"} THEN ConvertRGB(img, sn) ELSE img

WriteFile(path, image) ==
    { f \in files : f.path # path }
      \cup {[path |-> path, alpha |-> image.alpha, size |-> image.size]}

(* Mutant of SaveDone: the output file is opened before the image is made *)
SaveDoneOpensFirst(req, path, out, fault) ==
    /\ SetStore(out.S)
    /\ serial' = serial + 1
    /\ files' = WriteFile(path, SavedImage(out.img, path, serial + 1))
    /\ last' = CallRecord("save", req,
                 IF out.kind = "image"
                 THEN [out EXCEPT !.img = SavedImage(out.img, path, serial + 1)]
                 ELSE [out EXCEPT !.err = Wrapped("save", out.err)],
                 fault, path)

(* save_quote after create_quote has ended with out, lines 430-436 *)
SaveDone(req, path, out, fault) ==
    /\ SetStore(out.S)
    /\ serial' = serial + 1
    /\ IF out.kind = "image"
       THEN /\ files' = WriteFile(path, SavedImage(out.img, path, serial + 1))
            /\ last' = CallRecord("save", req,
                         [out EXCEPT !.img = SavedImage(out.img, path, serial + 1)],
                         fault, path)
       ELSE /\ files' = files
            /\ last' = CallRecord("save", req,
                         [out EXCEPT !.err = Wrapped("save", out.err)], fault, path)

(* save_quote(quote, output_path, author, **kwargs) *)
SaveQuote(req, path, fontPick, bgPick, fault) ==
    /\ ~Blocked
    /\ SaveDone(req, path,
                CreateRun(Store, Self, req, fontPick, bgPick, fault, serial + 1), fault)
    /\ UNCHANGED << envVars, returned, poolVars >>

(* The asset directories are changed from outside the program. *)
ReplaceBackgrounds(dir) ==
    /\ ~Blocked
    /\ dir # bgDir
    /\ bgDir' = dir
    /\ UNCHANGED << fontDir, cacheVars, seqVars, poolVars >>

ReplaceFonts(dir) ==
    /\ ~Blocked
    /\ dir # fontDir
    /\ fontDir' = dir
    /\ UNCHANGED << bgDir, cacheVars, seqVars, poolVars >>

vars == << envVars, cacheVars, seqVars, poolVars >>

EmptyMap == [k \in {} |-> 0]

(* no function applied yet; no thread inside _get_font *)
NoApplication == [op |-> "none", args |-> << >>, out |-> << >>]
Threads == {1, 2}
NotLoading == [at |-> "out", key |-> << NoneV, 0 >>]

(* no command checked yet; data/role_panels.json does not exist *)
NoCheck == [kind |-> "none"]
NoFile == [state |-> "absent", data |-> EmptyMap, lastWrite |-> "none"]
NoPanels == [live |-> {}, obj |-> EmptyMap]

(* no call in flight, no future created *)
NoFault == [at |-> "none", o |-> 0, idx |-> 0]
NoCur ==
    [req |-> Request(QuoteOne, FALSE, << 0, 0 >>, NoneV, NoSize, NoneV, "modern"),
     fontPath |-> NoneV, fontSize |-> NoSize, bgPath |-> NoneV,
     wrapped |-> [err |-> NoErr, n |-> 0, lines |-> << >>], n |-> 0, canvas |-> NoImage,
     fault |-> NoFault, stage |-> "none", joined |-> 0, log |-> << >>]
NoPrep ==
    [bg |-> "none", fonts |-> "none", enh |-> "none", bgErr |-> NoErr, fontsErr |-> NoErr]

InitInstance ==
    /\ bgPin = << >>
    /\ fontPin = << >>
    /\ gradLru = << >>
    /\ gradDict = EmptyMap
    /\ fontCache = {}
    /\ gradStat = EmptyMap
    /\ randoms = [bg |-> 0, font |-> 0, bgMiss |-> FALSE, fontMiss |-> FALSE]
    /\ pinned = [bg |-> NoneV, font |-> NoneV]
    /\ files = {}
    /\ returned = << >>
    /\ serial = 0
    /\ last = NoCall
    /\ pc = "idle"
    /\ cur = NoCur
    /\ queue = << >>
    /\ prep = NoPrep
    /\ lineFut = << >>
    /\ fx = EmptyMap
    /\ pixels = EmptyMap
    /\ flight = {}
    /\ applied = NoApplication
    /\ loading = [t \in Threads |-> NotLoading]
    /\ loads = EmptyMap
    /\ shutdown = FALSE
    /\ calls = EmptyMap
    /\ instances = 1
    /\ conn = NoneV
    /\ prohibited = {}
    /\ checked = NoCheck
    /\ panels = NoPanels
    /\ dataFile = NoFile
    /\ cmds = << >>

Init ==
    /\ bgDir = BgFileNames
    /\ fontDir = FontFileNames
    /\ InitInstance

(* random.choice is reached only when the lru_cache misses *)
FontPicks == IF LruHit(fontPin, Self) THEN {NoneV} ELSE Picks(FontCandidates(fontDir))
BgPicks == IF LruHit(bgPin, Self) THEN {NoneV} ELSE Picks(BackgroundCandidates(bgDir))

(* The calls of the specification Spec: a base request, each of its        *)
(* arguments varied, and each drawing stage failing.                       *)
BaseSize == SizeOf(3)
NarrowSize == SizeOf(0)
TallSize == SizeOf(9)
Base == Request(QuoteTwo, TRUE, BaseSize, NoneV, NoSize, NoneV, "modern")
Rounded == [Base EXCEPT !.style = "{rounded}"]
Narrow == [Rounded EXCEPT !.size = NarrowSize, !.fontSize = 40, !.background = "user"]
Long == [Base EXCEPT !.quote = QuoteFour, !.size = TallSize]

(* the calls of Spec *)
Calls ==
    { << Base, "none" >>, << Base, "line" >>, << Rounded, "none" >>,
      << [Rounded EXCEPT !.background = "user"], "none" >>,
      << [Base EXCEPT !.style = "minimal"], "none" >>,
      << [Base EXCEPT !.size = NarrowSize], "none" >>,
      << Narrow, "none" >>,
      << Long, "none" >>, << Long, "hang" >> }
SaveCalls ==
    { << Base, "none", "out.JPG" >>,
      << [Rounded EXCEPT !.background = "user"], "none", "out.png" >> }

(* the calls of SpecErr: every failure the pipeline can meet *)
ErrCalls ==
    Calls
    \cup { << Rounded, f >> : f \in DrawFaults \ {"hang"} }
    \cup { << [Base EXCEPT !.style = st], "none" >> : st \in StyleArgs }
    \cup { << [Base EXCEPT !.size = TallSize], "none" >>,
           << [Narrow EXCEPT !.size = BaseSize], "none" >>,
           << [Base EXCEPT !.quote = QuoteBlank], "none" >>,
           << [Base EXCEPT !.author = FALSE, !.background = "user"], "none" >>,
           << [Base EXCEPT !.fontPath = "missing.ttf"], "none" >>,
           << [Base EXCEPT !.fontPath = "missing.ttf", !.fontSize = 40], "none" >>,
           << [Base EXCEPT !.fontPath = "x.ttf", !.fontSize = 1], "none" >> }
OutputPaths == {"out.png", "out.JPG"}

BgConfigs == { {}, {"a.png", "B.JPG"}, BgFileNames }
FontConfigs == { {}, FontFileNames }

Next ==
    \/ /\ serial < MaxRenders
       /\ \E call \in Calls, fontPick \in FontPicks, bgPick \in BgPicks :
            CreateQuote(call[1], fontPick, bgPick, call[2])
    \/ /\ serial < MaxRenders
       /\ \E call \in SaveCalls, fontPick \in FontPicks, bgPick \in BgPicks :
            SaveQuote(call[1], call[3], fontPick, bgPick, call[2])
    \/ /\ serial < MaxRenders
       /\ \E dir \in BgConfigs : ReplaceBackgrounds(dir)
    \/ /\ serial < MaxRenders
       /\ \E dir \in FontConfigs : ReplaceFonts(dir)

Spec == Init /\ [][Next]_vars

NextErr ==
    \/ /\ serial < MaxErrCalls
       /\ \E call \in ErrCalls, fontPick \in FontPicks, bgPick \in BgPicks :
            CreateQuote(call[1], fontPick, bgPick, call[2])
    \/ /\ serial < MaxErrCalls
       /\ \E call \in ErrCalls, path \in OutputPaths,
             fontPick \in FontPicks, bgPick \in BgPicks :
            SaveQuote(call[1], path, fontPick, bgPick, call[2])
    \/ /\ serial < MaxErrCalls
       /\ \E dir \in BgConfigs : ReplaceBackgrounds(dir)
    \/ /\ serial < MaxErrCalls
       /\ \E dir \in FontConfigs : ReplaceFonts(dir)

SpecErr == Init /\ [][NextErr]_vars

(* The calls of SpecGrad: output sizes are taken in the order of SizeOf,    *)
(* each call using a size already in the gradient dict or the first size   *)
(* that is not; the font size is given, so that every size reaches the     *)
(* background preparation.  At most MaxRepeats calls add no gradient.      *)
GradRepeats == serial - Cardinality(DOMAIN gradDict)
GradSizes ==
    { i \in 0..(NumSizes - 1) :
        \/ i = Cardinality(DOMAIN gradDict)
        \/ i < Cardinality(DOMAIN gradDict) /\ GradRepeats < MaxRepeats }
GradRequest(i, st) == Request(QuoteOne, FALSE, SizeOf(i), NoneV, 40, "user", st)

NextGrad ==
    /\ \E i \in GradSizes, st \in {"modern", "minimal"}, fontPick \in FontPicks :
         /\ st = "minimal" => GradRepeats < MaxRepeats
         /\ CreateQuote(GradRequest(i, st), fontPick, NoneV, "none")

SpecGrad == Init /\ [][NextGrad]_vars

(***************************************************************************)
(* _calculate_optimal_font_size applied to texts, canvases and initial     *)
(* sizes: quotes of narrow letters, a quote of two words of wide letters,  *)
(* a blank; canvases from 100 pixels wide; initial sizes below and above   *)
(* the minimum.                                                            *)
(***************************************************************************)
WideTwo == << MakeChunk("wide", 2), 0, MakeChunk("wide", 2) >>
FitTexts == {QuoteTwo, QuoteFive, WideTwo, QuoteBlank}
FitWidths == {100, 130, 280, 325, 600}
FitHeights == {300, 500, 1000}
FitInitials == {1, 15, 22, 90}
FitFont == "f.ttf"

FitResult(S, text, maxWidth, maxHeight, initial) ==
    LET fit == CalculateOptimalFontSize(S, text, maxWidth, maxHeight, FitFont, initial)
    IN  [err |-> fit.err, size |-> fit.size]

(* the function has been applied: its result, and the caches as it left    *)
(* them                                                                    *)
Applied(op, args, out, S) ==
    /\ SetStore(S)
    /\ applied' = [op |-> op, args |-> args, out |-> out]
    /\ UNCHANGED << envVars, seqVars, pc, cur, queue, prep, lineFut, fx, pixels,
                    flight, loading, loads, laterVars >>

FitDone(args, fit) == Applied("fit", args, [err |-> fit.err, size |-> fit.size], fit.S)

ApplyFit(text, maxWidth, maxHeight, initial) ==
    FitDone(<< text, maxWidth, maxHeight, initial >>,
            CalculateOptimalFontSize(Store, text, maxWidth, maxHeight, FitFont, initial))

NextFit ==
    \E text \in FitTexts, w \in FitWidths, h \in FitHeights, initial \in FitInitials :
        ApplyFit(text, w, h, initial)

SpecFit == Init /\ [][NextFit]_vars

(***************************************************************************)
(* _wrap_text applied as create_quote and _calculate_optimal_font_size     *)
(* apply it, to the bound of a canvas width and a font size.  The texts    *)
(* are the sequences of up to three chunks that textwrap can split a       *)
(* string into: no two runs of blanks and no two words side by side, a     *)
(* word follows a hyphen only with two letters or more.                    *)
(***************************************************************************)
WrapChunkKinds ==
    { 0, MakeChunk("blank", 2), 2, 5, MakeChunk("wide", 3), MakeChunk("hyphen", 3) }

Splittable(text) ==
    \A i \in 1..(Len(text) - 1) :
        LET a == ChunkKind(text[i])
            b == ChunkKind(text[i + 1])
        IN  /\ ~(a = "blank" /\ b = "blank")
            /\ a \in {"letter", "wide"} => b = "blank"
            /\ a = "hyphen" => b = "blank" \/ (b = "letter" /\ ChunkLen(text[i + 1]) >= 2)

WrapTexts ==
    { t \in UNION { [1..n -> WrapChunkKinds] : n \in 1..3 } : Splittable(t) }
WrapCanvasWidths == {50, 100, 110, 120, 130, 150, 170}

ApplyWrap(text, canvasWidth, size) ==
    Applied("wrap", << text, canvasWidth, size >>,
            WrapText(text, WrapWidth(canvasWidth, size)), Store)

NextWrap ==
    \E text \in WrapTexts, w \in WrapCanvasWidths : ApplyWrap(text, w, MinFontSize)

SpecWrap == Init /\ [][NextWrap]_vars

(***************************************************************************)
(* _get_font called by two threads of one instance: the prepare_fonts      *)
(* tasks, or the font-size fitting, of two create_quote calls that run at  *)
(* the same time.  The method takes no lock: the test of line 215, the     *)
(* call of ImageFont.truetype and the assignment of line 216 are steps of  *)
(* their own.                                                              *)
(***************************************************************************)
FontKeys == { << "f.ttf", 90 >>, << "f.ttf", 45 >>, << "G.OTF", 90 >> }

otherThanFonts ==
    << envVars, seqVars, pc, cur, queue, prep, lineFut, fx, pixels, flight, applied,
       bgPin, fontPin, gradLru, gradDict, gradStat, randoms, pinned, laterVars >>

(* line 215: key not in self._font_cache; on a hit line 217 returns *)
GetFontLookup(t, key) ==
    /\ loading[t].at = "out"
    /\ loading' = [loading EXCEPT ![t] = IF key \in fontCache THEN NotLoading
                                         ELSE [at |-> "truetype", key |-> key]]
    /\ UNCHANGED << otherThanFonts, fontCache, loads >>

(* line 216, right-hand side: ImageFont.truetype(font_path, size) *)
GetFontTruetype(t) ==
    /\ loading[t].at = "truetype"
    /\ LET key == loading[t].key
       IN  IF FontLoads(Store, key[1], key[2])
           THEN /\ loads' = (key :> (IF key \in DOMAIN loads THEN loads[key] + 1 ELSE 1))
                              @@ loads
                /\ loading' = [loading EXCEPT ![t].at = "store"]
           ELSE /\ loads' = loads
                /\ loading' = [loading EXCEPT ![t] = NotLoading]
    /\ UNCHANGED << otherThanFonts, fontCache >>

(* line 216, the assignment, and the return of line 217 *)
GetFontStore(t) ==
    /\ loading[t].at = "store"
    /\ fontCache' = fontCache \cup {loading[t].key}
    /\ loading' = [loading EXCEPT ![t] = NotLoading]
    /\ UNCHANGED << otherThanFonts, loads >>

NextFont ==
    \E t \in Threads :
        \/ \E key \in FontKeys : GetFontLookup(t, key)
        \/ GetFontTruetype(t)
        \/ GetFontStore(t)

SpecFont == Init /\ [][NextFont]_vars

(***************************************************************************)
(* create_quote unfolded: the thread that called it and the tasks of       *)
(* self.executor = ThreadPoolExecutor(max_workers=4).                      *)
(*                                                                         *)
(* The work queue is first-in first-out.  A task that waits for another    *)
(* future (prepare_background, draw_text_line) keeps its worker while it   *)
(* waits; a task that waits for nothing (prepare_fonts,                    *)
(* apply_enhancements, draw_shadow, draw_outline) is taken from the queue  *)
(* and completed in one step.  The sub-draws of one effects call are       *)
(* queued together, as one entry with a count.                             *)
(***************************************************************************)
QuoteMarkFx == 0
AuthorFx == 6
WatermarkFx == 7

Task(kind, o, n) == [kind |-> kind, o |-> o, n |-> n]

(* workers occupied by tasks that wait for a future *)
Waiting ==
    (IF prep.bg = "running" THEN 1 ELSE 0)
    + Cardinality({ i \in 1..Len(lineFut) : lineFut[i] = "running" })
WorkerFree == Waiting + Cardinality(flight) < MaxWorkers
Quiet == queue = << >> /\ Waiting = 0 /\ flight = {}

HeadIs(kind) == queue # << >> /\ Head(queue).kind = kind

(* the faults of the drawing tasks: apply_enhancements raises, getbbox     *)
(* raises in draw_text_line of line o, the idx-th draw.text of the effects *)
(* call of owner o raises                                                  *)
Fault(at, o, idx) == [at |-> at, o |-> o, idx |-> idx]

(* shadow_offsets and outline_positions *)
ShadowCount(strength) == strength
OutlineCount == (2 * OutlineRadius + 1) * (2 * OutlineRadius + 1) - 1

(* _add_text_with_effects_parallel, lines 124-129: the sub-draws are       *)
(* submitted, shadows first                                                *)
NewEffects(o, strength) ==
    [total |-> ShadowCount(strength) + OutlineCount,
     shadows |-> ShadowCount(strength),
     done |-> 0,
     bad |-> IF cur.fault.at = "draw" /\ cur.fault.o = o THEN cur.fault.idx ELSE 0,
     failed |-> FALSE,
     state |-> "waiting"]

SubmitEffects(q, F, o, strength) ==
    /\ fx' = (o :> NewEffects(o, strength)) @@ F
    /\ queue' = Append(q, Task("draw", o, ShadowCount(strength) + OutlineCount))

(* line 136: the main text is drawn *)
Fill(f) == [f EXCEPT !.state = "filled"]

(* lines 132-133: future.result() in the order of the list; the exception  *)
(* of the first failed future is raised once the futures before it are     *)
(* done                                                                    *)
JoinRaises(f) == f.failed

(* Mutant of AllJoined: only the shadow futures are waited for *)
ShadowsJoined(f) == ~f.failed /\ f.done >= f.shadows

AllJoined(f) == ~f.failed /\ f.done = f.total

(* the call is left: with the image, or with the ValueError of line 423 *)
EndCall(out) ==
    /\ pc' = "idle"
    /\ serial' = serial + 1
    /\ last' = CallRecord("create", cur.req, out, cur.fault.at, NoneV)
    /\ returned' = IF out.kind = "image" THEN Append(returned, out.img.id) ELSE returned
    /\ UNCHANGED << envVars, files >>

Raise(err) == EndCall(Raised(err, Store, cur.fontPath, cur.bgPath))

NotEnded == UNCHANGED << envVars, seqVars >>

(* line 344: _wrap_text on the quote, a function of the arguments and of   *)
(* the font size; the call evaluates it after the joins of line 336-337    *)
Wrapping(req, fontSize) ==
    LET w == WrapText(req.quote, WrapWidth(req.size[1], fontSize))
    IN  [err |-> w.err, n |-> Len(w.lines), lines |-> w.lines]

(* lines 345 and 357: the top of the first line.  height // 3.5 is the     *)
(* floor of 2 * height / 7.                                                *)
StartY(height, n, fontSize) ==
    Max((height - n * (fontSize + LineGap)) \div 2, (2 * height) \div 7)

(* line 374: the position of line i (the first line is line 1) is fixed    *)
(* when the list text_lines is built, before any task is submitted         *)
LineY(i) ==
    StartY(cur.req.size[2], cur.n, cur.fontSize) + (i - 1) * (cur.fontSize + LineGap)

(* line 364 and 367: the line is centred *)
LineX(i) == (cur.req.size[1] - TextWidth(cur.wrapped.lines[i], cur.fontSize)) \div 2

(* lines 295-296 and 369: the fill of the text, opaque, and of its shadow  *)
TextColor(st) == DictGet(st, "text_color", White) \o << 255 >>
ShadowColor(st) == << 0, 0, 0, DictGet(st, "shadow_opacity", 180) >>
OutlineColor == << 0, 0, 0, 255 >>

(* line 125: the k-th outline position, (0, 0) left out *)
OutlinePosition(k) ==
    LET side == 2 * OutlineRadius + 1
        centre == (side * side - 1) \div 2
        p == IF k - 1 < centre THEN k - 1 ELSE k
    IN  << (p \div side) - OutlineRadius, (p % side) - OutlineRadius >>

(* lines 115-129: the k-th sub-draw of an effects call, shadows first: its *)
(* offset from the position of the text and its fill                       *)
SubDraw(k, strength, st) ==
    IF k <= ShadowCount(strength)
    THEN [offset |-> << k, k >>, fill |-> ShadowColor(st)]
    ELSE [offset |-> OutlinePosition(k - ShadowCount(strength)), fill |-> OutlineColor]

(* draw.text on the RGBA image: the ink replaces the four bands of the     *)
(* pixels under the glyphs.  Of the glyphs of a line the image keeps the   *)
(* pixel at the position of the text, which every glyph bitmap covers.     *)
DrawText(px, xy, fill) == (xy :> fill) @@ px

IsLine(o) == o \in 1..cur.n

(* draw_shadow or draw_outline of line o, k-th sub-draw *)
DrawEffect(px, o, k) ==
    LET st == ResolveStyle(cur.req.style)
        d == SubDraw(k, StyleShadowStrength(st), st)
    IN  IF IsLine(o)
        THEN DrawText(px, << LineX(o) + d.offset[1], LineY(o) + d.offset[2] >>, d.fill)
        ELSE px

(* line 136: the main text of line o *)
DrawMain(px, o) ==
    IF IsLine(o)
    THEN DrawText(px, << LineX(o), LineY(o) >>, TextColor(ResolveStyle(cur.req.style)))
    ELSE px

(* create_quote, lines 287-323: style, font path, and the font size, which *)
(* the calling thread fits when the caller gave none                       *)
PCreate(req, fontPick, fault) ==
    /\ pc = "idle"
    /\ Quiet
    /\ LET style == ResolveStyle(req.style)
           font == IF req.fontPath # NoneV
                   THEN [err |-> NoErr, val |-> req.fontPath, S |-> Store]
                   ELSE GetRandomFont(Store, Self, fontPick)
           fit == IF req.fontSize # NoSize
                  THEN [err |-> NoErr, size |-> req.fontSize, S |-> font.S]
                  ELSE CalculateOptimalFontSize(font.S, req.quote, req.size[1],
                                                req.size[2], font.val, StyleFontSize(style))
           new == [NoCur EXCEPT !.req = req, !.fontPath = font.val, !.fault = fault]
       IN  /\ lineFut' = << >>
           /\ fx' = EmptyMap
           /\ pixels' = EmptyMap
           /\ flight' = {}
           /\ UNCHANGED sideVars
           /\ IF font.err # NoErr \/ fit.err # NoErr
              THEN /\ SetStore(fit.S)
                   /\ cur' = new
                   /\ prep' = NoPrep
                   /\ pc' = "idle"
                   /\ serial' = serial + 1
                   /\ last' = CallRecord("create", req,
                                Raised(IF font.err # NoErr THEN font.err ELSE fit.err,
                                       fit.S, font.val, NoneV),
                                fault.at, NoneV)
                   /\ UNCHANGED << envVars, files, returned, queue >>
              ELSE /\ SetStore(fit.S)
                   /\ cur' = [new EXCEPT !.fontSize = fit.size,
                                          !.wrapped = Wrapping(req, fit.size)]
                   /\ prep' = NoPrep
                   /\ pc' = "submit_prepare"
                   /\ queue' = queue
                   /\ NotEnded

(* lines 332-333: prepare_background and prepare_fonts are submitted, two  *)
(* tasks of which neither waits for the other                              *)
PSubmitPrepare ==
    /\ pc = "submit_prepare"
    /\ cur' = [cur EXCEPT !.stage = "prepare"]
    /\ queue' = << Task("prepare_background", 0, 1), Task("prepare_fonts", 0, 1) >>
    /\ prep' = [NoPrep EXCEPT !.bg = "queued", !.fonts = "queued"]
    /\ pc' = "join_background"
    /\ UNCHANGED << envVars, cacheVars, seqVars, lineFut, fx, pixels, flight, sideVars >>

(* lines 336-337: future.result() returns or raises once the task is done *)
FutureAny(status) == TRUE

FutureDone(status) == status \in {"ok", "failed"}

(* a worker takes prepare_background: lines 300-312 up to the submission   *)
(* of apply_enhancements (line 181), for which the task then waits         *)
PPrepareBackground(bgPick) ==
    /\ HeadIs("prepare_background")
    /\ WorkerFree
    /\ LET opened == OpenBackground(Store, Self, cur.req.background, cur.req.size,
                                    bgPick, serial + 1)
       IN  /\ SetStore(opened.S)
           /\ IF opened.err # NoErr
              THEN /\ prep' = [prep EXCEPT !.bg = "failed", !.bgErr = opened.err]
                   /\ queue' = Tail(queue)
                   /\ cur' = [cur EXCEPT !.bgPath = opened.path]
              ELSE /\ prep' = [prep EXCEPT !.bg = "running", !.enh = "queued"]
                   /\ queue' = Append(Tail(queue), Task("apply_enhancements", 0, 1))
                   /\ cur' = [cur EXCEPT !.bgPath = opened.path, !.canvas = opened.img,
                                          !.log = Logged(@, "resize", 0)]
    /\ UNCHANGED << envVars, seqVars, pc, lineFut, fx, pixels, flight, sideVars >>

(* a worker runs apply_enhancements, lines 171-175 *)
PApplyEnhancements ==
    /\ HeadIs("apply_enhancements")
    /\ WorkerFree
    /\ queue' = Tail(queue)
    /\ prep' = [prep EXCEPT !.enh = IF cur.fault.at = "enhance" THEN "failed" ELSE "ok"]
    /\ cur' = IF cur.fault.at = "enhance" THEN cur
              ELSE [cur EXCEPT !.log = Logged(@, "enhance", 0)]
    /\ UNCHANGED << envVars, cacheVars, seqVars, pc, lineFut, fx, pixels, flight, sideVars >>

(* prepare_background goes on after enhanced_future.result(), lines        *)
(* 184-207, and releases its worker                                        *)
PEnhanced ==
    /\ prep.bg = "running"
    /\ prep.enh \in {"ok", "failed"}
    /\ LET enhanced == IF prep.enh = "failed"
                       THEN [err |-> EnhancementFailure, img |-> NoImage, S |-> Store]
                       ELSE EnhanceBackground(Store, Self, cur.canvas,
                                              ResolveStyle(cur.req.style), serial + 1)
       IN  /\ SetStore(enhanced.S)
           /\ prep' = [prep EXCEPT !.bg = IF enhanced.err # NoErr THEN "failed" ELSE "ok",
                                   !.bgErr = enhanced.err]
           /\ cur' = [cur EXCEPT !.canvas = enhanced.img,
                                  !.log = IF prep.enh = "failed" THEN @
                                          ELSE EnhanceLog(@, ResolveStyle(cur.req.style))]
    /\ UNCHANGED << envVars, seqVars, pc, queue, lineFut, fx, pixels, flight, sideVars >>

(* a worker runs prepare_fonts, lines 326-329 *)
PPrepareFonts ==
    /\ HeadIs("prepare_fonts")
    /\ WorkerFree
    /\ LET fonts == PrepareFonts(Store, cur.fontPath, cur.fontSize)
       IN  /\ SetStore(fonts.S)
           /\ prep' = [prep EXCEPT !.fonts = IF fonts.err # NoErr THEN "failed" ELSE "ok",
                                   !.fontsErr = fonts.err]
    /\ queue' = Tail(queue)
    /\ UNCHANGED << envVars, seqVars, pc, cur, lineFut, fx, pixels, flight, sideVars >>

(* background_future.result(), line 336 *)
PJoinBackground ==
    /\ pc = "join_background"
    /\ FutureDone(prep.bg)
    /\ IF prep.bg = "failed"
       THEN Raise(prep.bgErr)
       ELSE pc' = "join_fonts" /\ NotEnded
    /\ UNCHANGED << cacheVars, cur, queue, prep, lineFut, fx, pixels, flight, sideVars >>

(* fonts_future.result(), line 337, then the wrapping of the quote and the *)
(* opening quote mark, lines 340-354, up to the join of its sub-draws      *)
PJoinFonts ==
    /\ pc = "join_fonts"
    /\ FutureDone(prep.fonts)
    /\ LET w == cur.wrapped
           markFont == GetFont(Store, cur.fontPath, 3 * cur.fontSize)
       IN  IF prep.fonts = "failed" \/ w.err # NoErr \/ markFont.err # NoErr
           THEN /\ Raise(IF prep.fonts = "failed" THEN prep.fontsErr
                         ELSE IF w.err # NoErr THEN w.err ELSE markFont.err)
                /\ UNCHANGED << cacheVars, cur, queue, fx >>
           ELSE /\ SetStore(markFont.S)
                /\ cur' = [cur EXCEPT !.n = w.n, !.stage = "quote_mark"]
                /\ SubmitEffects(queue, fx, QuoteMarkFx, DefaultShadowStrength)
                /\ pc' = "quote_mark"
                /\ NotEnded
    /\ UNCHANGED << prep, lineFut, pixels, flight, sideVars >>

(* the effects call of the quote mark returns or raises; lines 357-374 *)
PQuoteMark ==
    /\ pc = "quote_mark"
    /\ LET f == fx[QuoteMarkFx]
       IN  \/ /\ JoinRaises(f)
              /\ Raise(DrawFailure)
              /\ UNCHANGED << cur, fx >>
           \/ /\ AllJoined(f)
              /\ fx' = [fx EXCEPT ![QuoteMarkFx] = Fill(f)]
              /\ cur' = [cur EXCEPT !.stage = "lines"]
              /\ pc' = IF cur.n = 0 THEN "join_lines" ELSE "submit_lines"
              /\ NotEnded
    /\ UNCHANGED << cacheVars, queue, prep, lineFut, pixels, flight, sideVars >>

(* line 376: one self.executor.submit(draw_text_line, line_data) *)
PSubmitLine ==
    /\ pc = "submit_lines"
    /\ LET i == Len(lineFut) + 1
       IN  /\ lineFut' = Append(lineFut, "queued")
           /\ queue' = Append(queue, Task("draw_text_line", i, 1))
           /\ pc' = IF i = cur.n THEN "join_lines" ELSE "submit_lines"
    /\ UNCHANGED << envVars, cacheVars, seqVars, cur, prep, fx, pixels, flight, sideVars >>

(* a worker takes draw_text_line, lines 361-372: getbbox, then the effects *)
(* call of the line, whose sub-draws go to the same queue                  *)
PDrawTextLine ==
    /\ HeadIs("draw_text_line")
    /\ WorkerFree
    /\ LET i == Head(queue).o
       IN  IF cur.fault.at = "getbbox" /\ cur.fault.o = i
           THEN /\ lineFut' = [lineFut EXCEPT ![i] = "failed"]
                /\ queue' = Tail(queue)
                /\ fx' = fx
           ELSE /\ lineFut' = [lineFut EXCEPT ![i] = "running"]
                /\ SubmitEffects(Tail(queue), fx, i,
                                 StyleShadowStrength(ResolveStyle(cur.req.style)))
    /\ UNCHANGED << envVars, cacheVars, seqVars, pc, cur, prep, pixels, flight, sideVars >>

(* a worker runs one draw_shadow or draw_outline, lines 115-120, from the  *)
(* head of the queue to its end                                            *)
PDraw ==
    /\ HeadIs("draw")
    /\ WorkerFree
    /\ flight = {}
    /\ LET o == Head(queue).o
           idx == fx[o].done + 1
       IN  /\ fx' = [fx EXCEPT ![o].done = idx, ![o].failed = @ \/ idx = fx[o].bad]
           /\ pixels' = IF idx = fx[o].bad THEN pixels ELSE DrawEffect(pixels, o, idx)
           /\ cur' = IF idx = fx[o].bad THEN cur ELSE [cur EXCEPT !.log = LoggedText(@)]
           /\ queue' = IF Head(queue).n = 1 THEN Tail(queue)
                       ELSE [queue EXCEPT ![1].n = @ - 1]
    /\ UNCHANGED << envVars, cacheVars, seqVars, pc, prep, lineFut, flight, sideVars >>

(* a worker takes the next draw_shadow or draw_outline from the queue *)
PTakeDraw ==
    /\ HeadIs("draw")
    /\ WorkerFree
    /\ LET o == Head(queue).o
           k == fx[o].total - Head(queue).n + 1
       IN  /\ flight' = flight \cup {[o |-> o, k |-> k]}
           /\ queue' = IF Head(queue).n = 1 THEN Tail(queue)
                       ELSE [queue EXCEPT ![1].n = @ - 1]
    /\ UNCHANGED << envVars, cacheVars, seqVars, pc, cur, prep, lineFut, fx, pixels, sideVars >>

(* the draw.text of a sub-draw a worker has taken writes the image, and    *)
(* the sub-draw is done: the worker is released                            *)
PFinishDraw(d) ==
    /\ d \in flight
    /\ flight' = flight \ {d}
    /\ fx' = [fx EXCEPT ![d.o].done = @ + 1, ![d.o].failed = @ \/ d.k = fx[d.o].bad]
    /\ pixels' = IF d.k = fx[d.o].bad THEN pixels ELSE DrawEffect(pixels, d.o, d.k)
    /\ cur' = IF d.k = fx[d.o].bad THEN cur ELSE [cur EXCEPT !.log = LoggedText(@)]
    /\ UNCHANGED << envVars, cacheVars, seqVars, pc, queue, prep, lineFut, sideVars >>

(* the effects call of a line returns or raises, and draw_text_line with   *)
(* it: the worker is released                                              *)
PLineDone(i) ==
    /\ lineFut[i] = "running"
    /\ LET f == fx[i]
       IN  \/ /\ JoinRaises(f)
              /\ lineFut' = [lineFut EXCEPT ![i] = "failed"]
              /\ fx' = [fx EXCEPT ![i].state = "raised"]
              /\ pixels' = pixels
           \/ /\ AllJoined(f)
              /\ lineFut' = [lineFut EXCEPT ![i] = "ok"]
              /\ fx' = [fx EXCEPT ![i] = Fill(f)]
              /\ pixels' = DrawMain(pixels, i)
    /\ UNCHANGED << envVars, cacheVars, seqVars, pc, cur, queue, prep, flight, sideVars >>

LineFailure(i) ==
    IF cur.fault.at = "getbbox" /\ cur.fault.o = i
    THEN Wrapped("draw_text_line", Exc("Exception", "getbbox"))
    ELSE Wrapped("draw_text_line", DrawFailure)

(* lines 379-380: future.result() for the next line of text_futures *)
PJoinLine ==
    /\ pc = "join_lines"
    /\ cur.joined < cur.n
    /\ LET j == cur.joined + 1
       IN  /\ lineFut[j] \in {"ok", "failed"}
           /\ IF lineFut[j] = "failed"
              THEN Raise(LineFailure(j)) /\ cur' = cur
              ELSE cur' = [cur EXCEPT !.joined = j] /\ NotEnded /\ pc' = pc
    /\ UNCHANGED << cacheVars, queue, prep, lineFut, fx, pixels, flight, sideVars >>

(* lines 398-406: the watermark font, and the effects call of the          *)
(* watermark up to the join of its sub-draws                               *)
StartWatermark(F) ==
    LET creditFont == GetFont(Store, cur.fontPath,
                              Max(cur.fontSize \div 5, MinCreditSize))
    IN  IF creditFont.err # NoErr
        THEN /\ Raise(Wrapped("watermark", creditFont.err))
             /\ UNCHANGED << cacheVars, cur, queue >>
             /\ fx' = F
        ELSE /\ SetStore(creditFont.S)
             /\ cur' = [cur EXCEPT !.stage = "watermark"]
             /\ SubmitEffects(queue, F, WatermarkFx, WatermarkShadowStrength)
             /\ pc' = "watermark"
             /\ NotEnded

(* every line is joined: the author (lines 385-393) or, without one, the   *)
(* watermark                                                               *)
PAfterLines ==
    /\ pc = "join_lines"
    /\ cur.joined = cur.n
    /\ IF cur.req.author
       THEN /\ cur' = [cur EXCEPT !.stage = "author"]
            /\ SubmitEffects(queue, fx, AuthorFx, DefaultShadowStrength)
            /\ pc' = "author"
            /\ NotEnded
            /\ UNCHANGED cacheVars
       ELSE StartWatermark(fx)
    /\ UNCHANGED << prep, lineFut, pixels, flight, sideVars >>

(* the effects call of the author returns or raises *)
PAuthor ==
    /\ pc = "author"
    /\ LET f == fx[AuthorFx]
       IN  \/ /\ JoinRaises(f)
              /\ Raise(Wrapped("author", DrawFailure))
              /\ UNCHANGED << cacheVars, cur, queue, fx >>
           \/ /\ AllJoined(f)
              /\ StartWatermark([fx EXCEPT ![AuthorFx] = Fill(f)])
    /\ UNCHANGED << prep, lineFut, pixels, flight, sideVars >>

(* the effects call of the watermark returns or raises; rounded corners    *)
(* and return, lines 412-420                                               *)
PWatermark ==
    /\ pc = "watermark"
    /\ LET f == fx[WatermarkFx]
           image == IF StyleRounded(ResolveStyle(cur.req.style))
                    THEN ApplyRoundedCorners(cur.canvas, CornerRadius(cur.req.size),
                                             serial + 1)
                    ELSE cur.canvas
       IN  \/ /\ JoinRaises(f)
              /\ Raise(Wrapped("watermark", DrawFailure))
              /\ UNCHANGED << cur, fx >>
           \/ /\ AllJoined(f)
              /\ fx' = [fx EXCEPT ![WatermarkFx] = Fill(f)]
              /\ cur' = [cur EXCEPT !.stage = "returned",
                                     !.log = IF StyleRounded(ResolveStyle(cur.req.style))
                                             THEN Logged(@, "rounded",
                                                         CornerRadius(cur.req.size))
                                             ELSE @]
              /\ EndCall(Outcome("image", NoErr, image, Store, cur.fontPath,
                                 cur.bgPath, cur.n))
    /\ UNCHANGED << cacheVars, queue, prep, lineFut, pixels, flight, sideVars >>

(* The calls of SpecPool: quotes of one to five words, at a font size that *)
(* puts each word on a line of its own, with and without author, and the   *)
(* faults of the tasks.                                                    *)
PoolFontSize == 100
PoolRequest(quote, author, st) ==
    Request(quote, author, TallSize, NoneV, PoolFontSize, "user", st)
PoolFaults ==
    { NoFault, Fault("enhance", 0, 0), Fault("getbbox", 2, 0),
      Fault("draw", QuoteMarkFx, 1), Fault("draw", 1, DefaultShadowStrength + 1),
      Fault("draw", 3, 1), Fault("draw", AuthorFx, 2),
      Fault("draw", WatermarkFx, WatermarkShadowStrength + OutlineCount) }
PoolCalls ==
    { << PoolRequest(q, TRUE, "modern"), f >> : q \in {QuoteOne, QuoteFour}, f \in PoolFaults }
    \cup { << PoolRequest(QuoteTwo, FALSE, "{rounded}"), NoFault >>,
           << PoolRequest(QuoteFive, FALSE, "minimal"), NoFault >>,
           << PoolRequest(QuoteFive, FALSE, "minimal"), Fault("getbbox", 2, 0) >>,
           << PoolRequest(QuoteBlank, TRUE, "modern"), NoFault >>,
           << [PoolRequest(QuoteTwo, TRUE, "modern") EXCEPT !.background = NoneV], NoFault >>,
           << [PoolRequest(QuoteTwo, FALSE, "modern") EXCEPT !.fontSize = NoSize], NoFault >>,
           << [PoolRequest(QuoteTwo, TRUE, "modern") EXCEPT !.fontPath = "missing.ttf"],
              NoFault >> }

(* a step of a worker or of the calling thread *)
PoolStep ==
    \/ PSubmitPrepare
    \/ \E bgPick \in BgPicks : PPrepareBackground(bgPick)
    \/ PApplyEnhancements
    \/ PEnhanced
    \/ PPrepareFonts
    \/ PJoinBackground
    \/ PJoinFonts
    \/ PQuoteMark
    \/ PSubmitLine
    \/ PDrawTextLine
    \/ PDraw
    \/ \E i \in 1..Len(lineFut) : PLineDone(i)
    \/ PJoinLine
    \/ PAfterLines
    \/ PAuthor
    \/ PWatermark

NextPool ==
    \/ /\ serial < MaxPoolCalls
       /\ \E call \in PoolCalls, fontPick \in FontPicks : PCreate(call[1], fontPick, call[2])
    \/ PoolStep

SpecPool == Init /\ [][NextPool]_vars

(***************************************************************************)
(* The same call with the sub-draws of the text lines as the pool runs     *)
(* them: up to four workers hold a draw_shadow or draw_outline each, and   *)
(* they complete in any order.  The sub-draws of the quote mark, of the    *)
(* author and of the watermark, which run while no line task does, are     *)
(* taken and completed in one step as before.  The calls are quotes of one *)
(* and two lines; no task fails.                                           *)
(***************************************************************************)
HeadIsLineDraw == HeadIs("draw") /\ IsLine(Head(queue).o)
HeadIsMarkDraw == HeadIs("draw") /\ ~IsLine(Head(queue).o)

CanvasCalls ==
    { PoolRequest(QuoteOne, FALSE, "modern"), PoolRequest(QuoteTwo, TRUE, "minimal"),
      PoolRequest(QuoteTwo, FALSE, "bold") }

CanvasStep ==
    \/ PSubmitPrepare
    \/ \E bgPick \in BgPicks : PPrepareBackground(bgPick)
    \/ PApplyEnhancements
    \/ PEnhanced
    \/ PPrepareFonts
    \/ PJoinBackground
    \/ PJoinFonts
    \/ PQuoteMark
    \/ PSubmitLine
    \/ PDrawTextLine
    \/ HeadIsMarkDraw /\ PDraw
    \/ HeadIsLineDraw /\ PTakeDraw
    \/ \E d \in flight : PFinishDraw(d)
    \/ \E i \in 1..Len(lineFut) : PLineDone(i)
    \/ PJoinLine
    \/ PAfterLines
    \/ PAuthor
    \/ PWatermark

NextCanvas ==
    \/ /\ serial < MaxPoolCalls
       /\ \E req \in CanvasCalls, fontPick \in FontPicks : PCreate(req, fontPick, NoFault)
    \/ CanvasStep

SpecCanvas == Init /\ [][NextCanvas]_vars

(***************************************************************************)
(* __del__: the instance is collected when nothing refers to it any more,  *)
(* and its pool is shut down with wait=False.  The calling thread is       *)
(* outside create_quote, and no task that refers to self                   *)
(* (prepare_background, prepare_fonts, draw_text_line) is queued or        *)
(* running; draw_shadow, draw_outline and apply_enhancements refer to the  *)
(* image and the font only, and may still be queued or running.  The       *)
(* workers go on taking what is in the queue after the shutdown.           *)
(***************************************************************************)
HoldsSelf(kind) == kind \in {"prepare_background", "prepare_fonts", "draw_text_line"}

Unreferenced ==
    /\ pc = "idle"
    /\ Waiting = 0
    /\ \A k \in 1..Len(queue) : ~HoldsSelf(queue[k].kind)

(* Mutant of ShutdownReturns: the shutdown joins the workers whatever wait *)
(* is                                                                      *)
ShutdownJoins(wait) == Quiet

(* ThreadPoolExecutor.shutdown(wait): with wait it returns when the        *)
(* workers have ended, without it at once                                  *)
ShutdownReturns(wait) == wait => Quiet

(* line 440: self.executor.shutdown(wait=False) *)
PDispose ==
    /\ ~shutdown
    /\ Unreferenced
    /\ ShutdownReturns(FALSE)
    /\ shutdown' = TRUE
    /\ UNCHANGED << envVars, cacheVars, seqVars, pc, cur, queue, prep, lineFut, fx, pixels,
                    flight, applied, loading, loads, calls, instances, botVars, panelVars >>

NextDispose ==
    \/ /\ serial < MaxPoolCalls
       /\ ~shutdown
       /\ \E call \in PoolCalls, fontPick \in FontPicks : PCreate(call[1], fontPick, call[2])
    \/ PoolStep
    \/ PDispose

SpecDispose == Init /\ [][NextDispose]_vars

(***************************************************************************)
(* Several threads call create_quote on the same instance at the same      *)
(* time.  The calls share self.executor and its queue; each call has its   *)
(* own futures.  This view keeps of a call what the scheduling depends on: *)
(* which tasks it submits, in which order, and which task or thread waits  *)
(* for which future.  No task fails.  calls[c] is the call of thread c:    *)
(*   at     the position of the calling thread,                            *)
(*   n      the number of lines of the wrapped quote, author as given,     *)
(*   bg, enh, fonts, lines   the futures of the tasks of the call,         *)
(*   left   per effects call of the call, the sub-draws not yet done.      *)
(***************************************************************************)
Callers == {1, 2}
SharedLines == {1, 3}

SharedTask(c, kind, o, n) == [c |-> c, kind |-> kind, o |-> o, n |-> n]

(* the workers held by tasks that wait for a future: prepare_background    *)
(* (line 184) and draw_text_line (lines 132-133)                           *)
Held ==
    LET held(c) == (IF calls[c].bg = "running" THEN 1 ELSE 0)
                   + Cardinality({ i \in 1..Len(calls[c].lines) :
                                     calls[c].lines[i] = "running" })
    IN  SumSeq([c \in 1..Cardinality(Callers) |->
                  IF c \in DOMAIN calls THEN held(c) ELSE 0])

(* lines 128-129: the sub-draws of one effects call go to the queue *)
SubmitDraws(c, o, strength) ==
    /\ queue' = Append(IF queue # << >> /\ Head(queue).kind = "draw_text_line"
                          /\ Head(queue).c = c /\ Head(queue).o = o
                       THEN Tail(queue) ELSE queue,
                       SharedTask(c, "draw", o, ShadowCount(strength) + OutlineCount))
    /\ calls' = [calls EXCEPT
                   ![c].left = (o :> (ShadowCount(strength) + OutlineCount)) @@ @,
                   ![c].lines = IF o \in 1..Len(@) THEN [@ EXCEPT ![o] = "running"] ELSE @,
                   ![c].at = IF o = QuoteMarkFx THEN "quote_mark"
                             ELSE IF o = AuthorFx THEN "author"
                             ELSE IF o = WatermarkFx THEN "watermark" ELSE @]

sharedRest ==
    << envVars, cacheVars, seqVars, pc, cur, prep, lineFut, fx, pixels, flight, applied,
       loading, loads, shutdown, instances, botVars, panelVars >>

(* a thread enters create_quote; lines 332-333: prepare_background and     *)
(* prepare_fonts are submitted                                             *)
MCreate(c, n, author) ==
    /\ c \notin DOMAIN calls
    /\ calls' = (c :> [at |-> "join_background", n |-> n, author |-> author,
                       bg |-> "queued", enh |-> "none", fonts |-> "queued",
                       lines |-> << >>, left |-> EmptyMap]) @@ calls
    /\ queue' = queue \o << SharedTask(c, "prepare_background", 0, 1),
                            SharedTask(c, "prepare_fonts", 0, 1) >>
    /\ UNCHANGED sharedRest

(* a free worker takes the oldest task of the queue.  prepare_background   *)
(* submits apply_enhancements (line 181) and waits for it;                 *)
(* draw_text_line submits the sub-draws of its line and waits for them;    *)
(* prepare_fonts, apply_enhancements and a sub-draw run to their end.      *)
MTake ==
    /\ queue # << >>
    /\ Held < MaxWorkers
    /\ LET t == Head(queue)
           c == t.c
       IN  CASE t.kind = "prepare_background" ->
                  /\ calls' = [calls EXCEPT ![c].bg = "running", ![c].enh = "queued"]
                  /\ queue' = Append(Tail(queue), SharedTask(c, "apply_enhancements", 0, 1))
             [] t.kind = "apply_enhancements" ->
                  /\ calls' = [calls EXCEPT ![c].enh = "ok"]
                  /\ queue' = Tail(queue)
             [] t.kind = "prepare_fonts" ->
                  /\ calls' = [calls EXCEPT ![c].fonts = "ok"]
                  /\ queue' = Tail(queue)
             [] t.kind = "draw_text_line" ->
                  SubmitDraws(c, t.o, DefaultShadowStrength)
             [] t.kind = "draw" ->
                  /\ calls' = [calls EXCEPT ![c].left[t.o] = @ - 1]
                  /\ queue' = IF t.n = 1 THEN Tail(queue) ELSE [queue EXCEPT ![1].n = @ - 1]
    /\ UNCHANGED sharedRest

(* line 184: enhanced_future.result() returns, prepare_background goes on  *)
(* to its end and releases its worker                                      *)
MEnhanced(c) ==
    /\ c \in DOMAIN calls
    /\ calls[c].bg = "running"
    /\ calls[c].enh = "ok"
    /\ calls' = [calls EXCEPT ![c].bg = "ok"]
    /\ UNCHANGED << queue, sharedRest >>

(* lines 132-136: the sub-draws of line i are joined, draw_text_line       *)
(* returns and releases its worker                                         *)
MLineDone(c, i) ==
    /\ c \in DOMAIN calls
    /\ i \in 1..Len(calls[c].lines)
    /\ calls[c].lines[i] = "running"
    /\ calls[c].left[i] = 0
    /\ calls' = [calls EXCEPT ![c].lines[i] = "ok"]
    /\ UNCHANGED << queue, sharedRest >>

(* the next step of the thread of call c: a join returns (lines 336, 337,  *)
(* 132-133, 379-380), or a line is submitted (line 376)                    *)
MCaller(c) ==
    /\ c \in DOMAIN calls
    /\ LET call == calls[c]
           joined(o) == o \in DOMAIN call.left /\ call.left[o] = 0
       IN  CASE call.at = "join_background" ->
                  /\ call.bg = "ok"
                  /\ calls' = [calls EXCEPT ![c].at = "join_fonts"]
                  /\ queue' = queue
             [] call.at = "join_fonts" ->
                  /\ call.fonts = "ok"
                  /\ SubmitDraws(c, QuoteMarkFx, DefaultShadowStrength)
             [] call.at = "quote_mark" ->
                  /\ joined(QuoteMarkFx)
                  /\ calls' = [calls EXCEPT ![c].at = "submit_lines"]
                  /\ queue' = queue
             [] call.at = "submit_lines" ->
                  /\ calls' = [calls EXCEPT
                                 ![c].lines = Append(@, "queued"),
                                 ![c].at = IF Len(call.lines) + 1 = call.n
                                           THEN "join_lines" ELSE @]
                  /\ queue' = Append(queue, SharedTask(c, "draw_text_line",
                                                       Len(call.lines) + 1, 1))
             [] call.at = "join_lines" ->
                  /\ \A i \in 1..call.n : call.lines[i] = "ok"
                  /\ SubmitDraws(c, IF call.author THEN AuthorFx ELSE WatermarkFx,
                                 IF call.author THEN DefaultShadowStrength
                                 ELSE WatermarkShadowStrength)
             [] call.at = "author" ->
                  /\ joined(AuthorFx)
                  /\ SubmitDraws(c, WatermarkFx, WatermarkShadowStrength)
             [] call.at = "watermark" ->
                  /\ joined(WatermarkFx)
                  /\ calls' = [calls EXCEPT ![c].at = "returned"]
                  /\ queue' = queue
             [] call.at = "returned" -> FALSE
    /\ UNCHANGED sharedRest

SharedStep ==
    \/ MTake
    \/ \E c \in Callers : MEnhanced(c)
    \/ \E c \in Callers, i \in SharedLines : MLineDone(c, i)
    \/ \E c \in Callers : MCaller(c)

NextShared ==
    \/ \E c \in Callers, n \in SharedLines, author \in BOOLEAN : MCreate(c, n, author)
    \/ SharedStep

SpecShared == Init /\ [][NextShared]_vars

(***************************************************************************)
(* Properties of the error values, the returned image and the caches.      *)
(***************************************************************************)
Failed == last.kind = "error"
ErrorKind(err) == Head(err).type
RootCause(err) == err[Len(err)]
SpecKinds == {"AssetNotFound", "ImageLoadError", "LayoutError", "RenderError"}

C5_AlwaysImage ==
    (last.op = "create" /\ last.valid /\ last.assetsGood /\ last.fault = "none"
       /\ last.kind # "hang")
    => (last.kind = "image" /\ last.img.size = last.size)

(* C5, amended: every image create returns has exactly the requested       *)
(* size, for every style, rounded corners included, and for a random and   *)
(* an explicit background; a canvas at most 100 pixels wide yields no      *)
(* image, create raises instead.                                           *)
C5_ExactSize ==
    /\ last.kind = "image" => last.img.size = last.size
    /\ (last.op # "none" /\ last.size[1] <= Margin) => last.kind = "error"

C5_Witness ==
    /\ last.op = "create" /\ last.kind = "image"
    /\ last.rounded /\ ~last.randomBg
    /\ last.img.size = BaseSize

RetainedGradients ==
    { gradDict[k].id : k \in DOMAIN gradDict }
      \cup { gradLru[i].v.id : i \in 1..Len(gradLru) }

(* C7: the gradient cache retains at most 16 overlay bitmaps, whatever the *)
(* output sizes of the calls made.                                         *)
C7_AtMostSixteen == Cardinality(RetainedGradients) <= GradientCacheSize

(* C8: requests for a gradient with the same (size, start color, end       *)
(* color, direction) are all served the same bitmap, and the generator     *)
(* runs once for that key.                                                 *)
C8_GeneratedOnce ==
    \A k \in DOMAIN gradStat :
        gradStat[k].calls <= 1 /\ Cardinality(gradStat[k].served) <= 1

C8_Witness ==
    \E k \in DOMAIN gradStat :
        gradStat[k].reqs >= 2 /\ gradStat[k].calls = 1
          /\ ~LruHit(gradLru, << Self >> \o k)

(* C9: an image returned by create is none of the objects the caches hold, *)
(* and no two calls return the same object.                                *)
C9_NotAliased ==
    /\ \A i \in 1..Len(returned) : returned[i] \notin RetainedGradients
    /\ \A i, j \in 1..Len(returned) : returned[i] = returned[j] => i = j

C9_Witness ==
    /\ Len(returned) >= 2
    /\ \E k \in DOMAIN gradStat : gradStat[k].reqs >= 2

(***************************************************************************)
(* Properties of the unfolded call.                                        *)
(***************************************************************************)
InFlight == pc # "idle"

StageNo(stage) ==
    CASE stage = "none" -> 0
      [] stage = "prepare" -> 1
      [] stage = "quote_mark" -> 2
      [] stage = "lines" -> 3
      [] stage = "author" -> 4
      [] stage = "watermark" -> 5
      [] stage = "returned" -> 6

(* the stages in which a task of the call in flight (or just ended) failed *)
FxFailed(o) == o \in DOMAIN fx /\ fx[o].failed
FailedStages ==
    (IF "failed" \in {prep.bg, prep.fonts, prep.enh} THEN {1} ELSE {})
    \cup (IF FxFailed(QuoteMarkFx) THEN {2} ELSE {})
    \cup (IF \E i \in 1..Len(lineFut) : lineFut[i] = "failed" \/ FxFailed(i)
          THEN {3} ELSE {})
    \cup (IF FxFailed(AuthorFx) THEN {4} ELSE {})
    \cup (IF FxFailed(WatermarkFx) THEN {5} ELSE {})
TaskFailed == FailedStages # {}

(* C1, as claimed: every call of create_quote returns or raises.  A call   *)
(* that is in flight can always go on: its thread or a worker of the pool  *)
(* has a step to take, whatever the number of wrapped lines.               *)
C1_CallProceeds == InFlight => ENABLED PoolStep

FailureCanReach == (TaskFailed /\ InFlight) => ENABLED PoolStep
NoLaterStage == \A st \in FailedStages : StageNo(cur.stage) <= st
NoPartialImage == (TaskFailed /\ ~InFlight) => last.kind = "error"

(* C2, as claimed: when a task of a render has failed, the failure reaches *)
(* the caller at the join of that task (the call in flight can go on until *)
(* it raises), no stage after the failed one is started, and the call      *)
(* returns no image.                                                       *)
C2_FailFast == FailureCanReach /\ NoLaterStage /\ NoPartialImage

QueuedDraws(o) ==
    LET at == { k \in 1..Len(queue) : queue[k].kind = "draw" /\ queue[k].o = o }
    IN  IF at = {} THEN 0 ELSE queue[CHOOSE k \in at : TRUE].n

(* the effects calls that have returned *)
EffectsReturned(o) ==
    \/ o \in 1..Len(lineFut) /\ lineFut[o] = "ok"
    \/ o = QuoteMarkFx /\ StageNo(cur.stage) > 2
    \/ o = AuthorFx /\ StageNo(cur.stage) > 4
    \/ o = WatermarkFx /\ StageNo(cur.stage) > 5

(* C10: every shadow and outline sub-draw of an effects call is submitted  *)
(* to the pool (each is done or in the queue); the fill is drawn only when *)
(* all of them are done, so that no sub-draw of the call writes after the  *)
(* fill; and the call returns only after the fill.                         *)
C10_FillLast ==
    \A o \in DOMAIN fx :
        /\ fx[o].total = fx[o].shadows + OutlineCount
        /\ fx[o].done + QueuedDraws(o) + Cardinality({ d \in flight : d.o = o })
             = fx[o].total
        /\ fx[o].state = "filled" => fx[o].done = fx[o].total
        /\ EffectsReturned(o) => fx[o].state = "filled"

C10_Witness ==
    /\ Len(lineFut) >= 2
    /\ lineFut[2] = "ok"
    /\ fx[2].state = "filled"
    /\ fx[2].done = DefaultShadowStrength + OutlineCount
    /\ lineFut[1] = "running"

(***************************************************************************)
(* The text lines on the shared image.                                     *)
(***************************************************************************)
(* font.getbbox(s)[3] of the fixture font: glyphs as high as the point size *)
GlyphHeight(size) == size

(* the rows that the task of line i writes: the glyphs at every offset of  *)
(* its shadows and outlines                                                *)
LineRows(i) ==
    LET strength == StyleShadowStrength(ResolveStyle(cur.req.style))
    IN  (LineY(i) - OutlineRadius)
          .. (LineY(i) + GlyphHeight(cur.fontSize) + Max(OutlineRadius, strength))

(* the image when every sub-draw of every line is made in the order of     *)
(* submission                                                              *)
RECURSIVE EffectsInOrder(_, _, _)
EffectsInOrder(px, o, k) ==
    IF k > ShadowCount(StyleShadowStrength(ResolveStyle(cur.req.style))) + OutlineCount
    THEN DrawMain(px, o)
    ELSE EffectsInOrder(DrawEffect(px, o, k), o, k + 1)

RECURSIVE LinesInOrder(_, _)
LinesInOrder(px, o) ==
    IF o > cur.n THEN px ELSE LinesInOrder(EffectsInOrder(px, o, 1), o + 1)

LinesDrawn ==
    /\ cur.n > 0
    /\ Len(lineFut) = cur.n
    /\ \A i \in 1..cur.n : lineFut[i] = "ok"

(* C11: the tasks of two lines write disjoint rows of the image, and once  *)
(* every line is drawn the image is the same whatever the order in which   *)
(* the line tasks and their sub-draws completed.                           *)
C11_OrderIndependent ==
    /\ cur.n > 0 =>
          \A i, j \in 1..cur.n : i # j => LineRows(i) \cap LineRows(j) = {}
    /\ LinesDrawn => pixels = LinesInOrder(EmptyMap, 1)

(***************************************************************************)
(* The order of font-size fitting, preparation and wrapping.               *)
(***************************************************************************)
(* lines 315-323 have run: the call fitted the font size *)
SizeFitted == cur.req.fontSize = NoSize /\ cur.fontSize # NoSize
(* lines 332-333 have run *)
Submitted == cur.stage # "none"
(* line 344 has run and the call went on to draw *)
WrapDone == StageNo(cur.stage) >= 2
BothJoined == prep.bg = "ok" /\ prep.fonts = "ok"

(* C12, as claimed: background preparation and font preparation are both   *)
(* joined before any layout work, font-size fitting or text wrapping,      *)
(* begins.                                                                 *)
C12_JoinedBeforeLayout == (SizeFitted \/ WrapDone) => BothJoined

(* C12: the two preparation tasks are submitted when the font size is      *)
(* fixed, after the fitting if the caller gave no size; both are done      *)
(* when the call wraps the quote and goes on to draw.                      *)
C12_JoinedBeforeWrap ==
    /\ Submitted => cur.fontSize # NoSize
    /\ (pc = "submit_prepare") =>
          /\ cur.fontSize # NoSize
          /\ prep = NoPrep
          /\ queue = << >>
    /\ WrapDone => BothJoined

C12_Witness ==
    /\ SizeFitted
    /\ cur.stage = "quote_mark"
    /\ BothJoined

(***************************************************************************)
(* The fitted font size.                                                   *)
(***************************************************************************)
(* the candidate sizes: initial, initial - 5, ... above the minimum *)
CandidateSizes(initial) ==
    { c \in (MinFontSize + 1)..initial : (initial - c) % FontSizeStep = 0 }

(* the text re-wrapped at size c passes the two tests *)
CandidateFits(text, maxWidth, maxHeight, c) ==
    LET bound == WrapWidth(maxWidth, c)
        lines == WrapText(text, bound).lines
    IN  /\ bound >= 1
        /\ \A i \in 1..Len(lines) : TextWidth(lines[i], c) <= maxWidth - 100
        /\ 10 * Len(lines) * (c + 10) <= 7 * maxHeight

(* textwrap.wrap rejects the bound of size c *)
CandidateFails(maxWidth, c) == WrapWidth(maxWidth, c) <= 0

FitArgs == [text |-> applied.args[1], maxWidth |-> applied.args[2],
            maxHeight |-> applied.args[3], initial |-> applied.args[4]]

FitApplied == applied.op = "fit" /\ HasWord(applied.args[1])

NotSmallerOn(w2, h2) ==
    LET r == FitResult(Store, FitArgs.text, w2, h2, FitArgs.initial)
    IN  r.err = NoErr /\ r.size >= applied.out.size

HasWideLetter(text) == \E i \in 1..Len(text) : ChunkKind(text[i]) = "wide"

FitReturned == FitApplied /\ applied.out.err = NoErr

(* C14, as claimed: for fixed text, font and initial size, a canvas that   *)
(* is at least as wide and as high, and larger in one of the two, never    *)
(* gets a smaller size.                                                    *)
C14_Monotone ==
    FitReturned =>
        \A w2 \in FitWidths, h2 \in FitHeights :
            (/\ w2 >= FitArgs.maxWidth
             /\ h2 >= FitArgs.maxHeight
             /\ w2 > FitArgs.maxWidth \/ h2 > FitArgs.maxHeight) => NotSmallerOn(w2, h2)

(* C14: a higher canvas of the same width never gets a smaller size; nor   *)
(* does a wider one when no letter of the text is wider than "A".          *)
C14_MonotoneInHeight ==
    FitReturned =>
        /\ \A h2 \in FitHeights :
              h2 > FitArgs.maxHeight => NotSmallerOn(FitArgs.maxWidth, h2)
        /\ ~HasWideLetter(FitArgs.text) =>
              \A w2 \in FitWidths, h2 \in FitHeights :
                  (w2 >= FitArgs.maxWidth /\ h2 >= FitArgs.maxHeight) => NotSmallerOn(w2, h2)

(* a size that the height of the canvas decided, with a higher canvas to   *)
(* compare it to                                                           *)
C14_Witness ==
    /\ FitReturned
    /\ applied.out.size < FitArgs.initial
    /\ \E h2 \in FitHeights :
          /\ h2 > FitArgs.maxHeight
          /\ FitResult(Store, FitArgs.text, FitArgs.maxWidth, h2, FitArgs.initial).size
                > applied.out.size

(***************************************************************************)
(* The wrapped lines as strings.                                           *)
(***************************************************************************)
Times(c, n) == [i \in 1..n |-> c]

(* the characters of a chunk: "a" for a letter, "W" for a wide one *)
ChunkChars(ch) ==
    CASE ChunkKind(ch) = "letter" -> Times("a", ChunkLen(ch))
      [] ChunkKind(ch) = "wide" -> Times("W", ChunkLen(ch))
      [] ChunkKind(ch) = "hyphen" -> Times("a", ChunkLen(ch) - 1) \o << "-" >>
      [] OTHER -> Times(" ", ChunkLen(ch))

RECURSIVE TextChars(_)
TextChars(chunks) ==
    IF chunks = << >> THEN << >> ELSE ChunkChars(Head(chunks)) \o TextChars(Tail(chunks))

(* " ".join(lines) *)
RECURSIVE JoinLines(_)
JoinLines(lines) ==
    IF lines = << >> THEN << >>
    ELSE IF Len(lines) = 1 THEN TextChars(lines[1])
    ELSE TextChars(lines[1]) \o << " " >> \o JoinLines(Tail(lines))

(* the string without its blanks *)
RECURSIVE Squeezed(_)
Squeezed(chars) ==
    IF chars = << >> THEN << >>
    ELSE IF Head(chars) = " " THEN Squeezed(Tail(chars))
    ELSE << Head(chars) >> \o Squeezed(Tail(chars))

(* " ".join(s.split()): every run of blanks is one blank, none at the ends *)
RECURSIVE Normalized(_)
Normalized(chars) ==
    IF chars = << >> THEN << >>
    ELSE IF Head(chars) = " "
    THEN IF Squeezed(chars) = << >> THEN << >>
         ELSE LET rest == Normalized(Tail(chars))
              IN  IF Tail(chars) # << >> /\ chars[2] = " " THEN rest
                  ELSE << " " >> \o rest
    ELSE << Head(chars) >> \o Normalized(Tail(chars))

Stripped(chars) ==
    LET n == Normalized(chars)
    IN  IF n # << >> /\ Head(n) = " " THEN Tail(n) ELSE n

WrapArgs == [text |-> applied.args[1], canvasWidth |-> applied.args[2],
             size |-> applied.args[3]]
WrapBound == (WrapArgs.canvasWidth - 100) \div Max(1, WrapArgs.size \div 2)
WrapReturned == applied.op = "wrap" /\ applied.out.err = NoErr

(* the longest word of the text: a run of chunks without a blank *)
RECURSIVE LongestWord(_, _)
LongestWord(chunks, run) ==
    IF chunks = << >> THEN run
    ELSE IF IsBlank(Head(chunks)) THEN Max(run, LongestWord(Tail(chunks), 0))
    ELSE LongestWord(Tail(chunks), run + ChunkLen(Head(chunks)))

HasHyphen(text) == \E i \in 1..Len(text) : ChunkKind(text[i]) = "hyphen"

(* C15, as claimed: the lines joined by single blanks are the text with    *)
(* every run of blanks made one blank and none at its ends.                *)
C15_JoinIsNormalized ==
    WrapReturned => JoinLines(applied.out.lines) = Stripped(TextChars(WrapArgs.text))

(* C15: the lines hold the characters of the text other than blanks, in    *)
(* their order; when no word is longer than the bound and none has a       *)
(* hyphen, the joined lines are the text up to the length of its runs of   *)
(* blanks.                                                                 *)
C15_JoinKeepsWords ==
    WrapReturned =>
        /\ Squeezed(JoinLines(applied.out.lines)) = Squeezed(TextChars(WrapArgs.text))
        /\ (LongestWord(WrapArgs.text, 0) <= WrapBound /\ ~HasHyphen(WrapArgs.text)) =>
              Stripped(JoinLines(applied.out.lines)) = Stripped(TextChars(WrapArgs.text))

(* a text of two words wrapped to two lines *)
C15_Witness ==
    /\ WrapReturned
    /\ WrapArgs.text = << 5, 0, 5 >>
    /\ Len(applied.out.lines) = 2
    /\ JoinLines(applied.out.lines) = TextChars(WrapArgs.text)

(* C16: a positive bound (canvasWidth - 100) // glyphWidth("A") is the     *)
(* greatest number of characters of a line that wrap returns; with a bound *)
(* that is not positive, as for every canvas at most 100 wide, wrap fails. *)
C16_LinesWithinBound ==
    applied.op = "wrap" =>
        /\ WrapArgs.canvasWidth <= 100 => WrapBound <= 0
        /\ WrapBound <= 0 => applied.out.err # NoErr /\ applied.out.lines = << >>
        /\ WrapBound >= 1 =>
              /\ applied.out.err = NoErr
              /\ \A i \in 1..Len(applied.out.lines) :
                    Len(TextChars(applied.out.lines[i])) <= WrapBound

(* a word longer than the bound, broken into lines *)
C16_Witness ==
    /\ WrapReturned
    /\ LongestWord(WrapArgs.text, 0) > WrapBound
    /\ Len(applied.out.lines) >= 2

(***************************************************************************)
(* The style of a call.                                                    *)
(***************************************************************************)
(* the value of every style field as the stages of create_quote read it:   *)
(* lines 316, 295, 296, 190, 194, 412, 369                                 *)
StyleParameters(arg) ==
    LET st == ResolveStyle(arg)
    IN  [font_size |-> StyleFontSize(st),
         text_color |-> SubSeq(TextColor(st), 1, 3),
         shadow_opacity |-> ShadowColor(st)[4],
         overlay_opacity |-> StyleOverlayOpacity(st),
         gradient_overlay |-> StyleGradient(st),
         rounded_corners |-> StyleRounded(st),
         shadow_strength |-> StyleShadowStrength(st)]

StyleFields == DOMAIN StylePresets["modern"]

(* C17, as claimed: a field that an explicit style does not set has the    *)
(* value of the preset "modern", and the empty style is "modern".          *)
C17_MissingFromModern ==
    (last.op = "create" /\ last.style \in StyleDicts) =>
        /\ \A f \in StyleFields \ DOMAIN ExplicitDict(last.style) :
              StyleParameters(last.style)[f] = StylePresets["modern"][f]
        /\ ExplicitDict(last.style) = EmptyDict =>
              StyleParameters(last.style) = StyleParameters("modern")

(* C18: a style name that is no preset is read as the preset "modern",     *)
(* field by field, and the call returns its image as with "modern".        *)
C18_UnknownIsModern ==
    (last.op = "create" /\ last.style \in StyleNames \ DOMAIN StylePresets) =>
        /\ \A f \in StyleFields : StyleParameters(last.style)[f] = StylePresets["modern"][f]
        /\ (last.assetsGood /\ last.valid /\ last.fault = "none"
              /\ last.size = BaseSize) => last.kind = "image"

C18_Witness ==
    /\ last.op = "create"
    /\ last.style = "neon"
    /\ last.kind = "image"

(***************************************************************************)
(* The file that save_quote writes.                                        *)
(***************************************************************************)
Saved == last.op = "save" /\ last.kind = "image"
SavedFile == CHOOSE f \in files : f.path = last.path

(* C19, as claimed: the file has no alpha channel exactly when the path    *)
(* ends in .jpg or .jpeg; otherwise it has the alpha channel of the image  *)
(* that create_quote returned, rounded corners included; the call returns  *)
(* the path.                                                               *)
C19_FlattenedOnJpg ==
    Saved =>
        /\ \E f \in files : f.path = last.path
        /\ SavedFile.alpha = "none" <=> FileExt(last.path) \in {"jpg", "jpeg"}
        /\ (FileExt(last.path) \notin {"jpg", "jpeg"} /\ last.rounded) =>
              SavedFile.alpha = "rounded"
        /\ last.ret = last.path

(* C19: the file has no alpha channel exactly when the path in lower case  *)
(* ends in .jpg or .jpeg; otherwise it has the alpha channel of the image  *)
(* that create_quote returned, rounded corners included; the call returns  *)
(* the path.                                                               *)
C19_FlattenedOnLowerJpg ==
    Saved =>
        /\ \E f \in files : f.path = last.path
        /\ SavedFile.alpha = "none" <=> Lower(FileExt(last.path)) \in {"jpg", "jpeg"}
        /\ (Lower(FileExt(last.path)) \notin {"jpg", "jpeg"} /\ last.rounded) =>
              SavedFile.alpha = "rounded"
        /\ SavedFile.size = last.size
        /\ last.ret = last.path

C19_Witness ==
    /\ Saved
    /\ last.path = "out.JPG"
    /\ SavedFile.alpha = "none"
    /\ \E f \in files : f.path = "out.png" /\ f.alpha = "rounded"

(***************************************************************************)
(* The font cache under concurrent calls.                                  *)
(***************************************************************************)
(* C20, as claimed: ImageFont.truetype is called at most once for a key    *)
(* (font path, size), whichever threads ask for the font.                  *)
C20_LoadedOnce == \A key \in DOMAIN loads : loads[key] <= 1

(***************************************************************************)
(* The disposal of the instance.                                           *)
(***************************************************************************)
Disposed == shutdown
PendingTasks == queue # << >> \/ flight # {}

CallStyle == ResolveStyle(cur.req.style)

(* the order of the stages as claimed, and as the amended claim has it *)
ClaimedRank(op) ==
    CASE op = "resize" -> 1 [] op = "enhance" -> 2 [] op = "blur" -> 3
      [] op = "overlay" -> 4 [] op = "gradient" -> 5 [] op = "rounded" -> 6
      [] op = "text" -> 7
MaskLastRank(op) == IF op = "rounded" THEN 8 ELSE ClaimedRank(op)

InOrder(log, rank(_)) ==
    \A i, j \in 1..Len(log) : i < j => rank(log[i][1]) < rank(log[j][1])

(* the optional stages only when the style asks for them; the overlay at   *)
(* the opacity of the style; the radius is 5% of the shorter side, rounded *)
(* down                                                                    *)
StagesAsStyled(log) ==
    /\ "gradient" \in LogOps(log) => StyleGradient(CallStyle)
    /\ "rounded" \in LogOps(log) => StyleRounded(CallStyle)
    /\ \A i \in 1..Len(log) :
         /\ log[i][1] = "overlay" => log[i][2] = DictGet(CallStyle, "overlay_opacity", 160)
         /\ log[i][1] = "rounded" =>
              LET side == Min(cur.req.size[1], cur.req.size[2])
              IN  100 * log[i][2] <= 5 * side /\ 5 * side < 100 * (log[i][2] + 1)

BackgroundStages ==
    {"resize", "enhance", "blur", "overlay"}
      \cup (IF StyleGradient(CallStyle) THEN {"gradient"} ELSE {})
MaskStage == IF StyleRounded(CallStyle) THEN {"rounded"} ELSE {}

(* C22, as claimed: the stages of the background preparation are applied   *)
(* in the order resize, enhance, blur, flat overlay at the opacity of the  *)
(* style, gradient (when the style has one), rounded-corner mask of radius *)
(* 5% of the shorter side (when the style asks for it), and all of them,   *)
(* the mask included, are done before any text is drawn.                   *)
C22_PreparedBeforeText ==
    /\ InOrder(cur.log, ClaimedRank)
    /\ StagesAsStyled(cur.log)
    /\ "text" \in LogOps(cur.log) =>
          (BackgroundStages \cup MaskStage) \subseteq LogOps(cur.log)

(* C22, amended: the same order up to the gradient, all done before any    *)
(* text is drawn; the rounded-corner mask is applied last, to the image    *)
(* with all its text, when the watermark has been drawn, and every image   *)
(* returned for a style with rounded corners has it.                       *)
C22_MaskOnFinishedImage ==
    /\ InOrder(cur.log, MaskLastRank)
    /\ StagesAsStyled(cur.log)
    /\ "text" \in LogOps(cur.log) => BackgroundStages \subseteq LogOps(cur.log)
    /\ "rounded" \in LogOps(cur.log) =>
          /\ "text" \in LogOps(cur.log)
          /\ fx[WatermarkFx].state = "filled"
    /\ (cur.stage = "returned" /\ pc = "idle") => MaskStage \subseteq LogOps(cur.log)

C22_Witness ==
    /\ cur.stage = "returned"
    /\ last.kind = "image"
    /\ {"gradient", "rounded", "text"} \subseteq LogOps(cur.log)
    /\ Len(cur.log) = 7


(***************************************************************************)
(* Calls that share the pool.                                              *)
(***************************************************************************)
CallsInFlight == { c \in DOMAIN calls : calls[c].at # "returned" }

(* C23: when several create_quote calls run at the same time on one        *)
(* instance, every one of them returns.  As long as a call is in flight,   *)
(* a thread or a worker has a step to take: the tasks that hold a worker   *)
(* while they wait never block all workers for ever.                       *)
C23_SharedCallsProceed == CallsInFlight # {} => ENABLED SharedStep


(***************************************************************************)
(* The tasks of a call that has ended.                                     *)
(***************************************************************************)
CallEnded == pc = "idle" /\ serial > 0

(* no draw.text of a task writes the image once the call has ended *)
WritesEndWithCall == [][(CallEnded /\ serial' = serial) => pixels' = pixels]_vars

(* C24: when create_quote has returned or raised, no task that the call    *)
(* submitted is still in the queue of the pool or running on a worker, so  *)
(* that after a failure no remaining shadow, outline or line task of the   *)
(* call writes to the image.                                               *)
C24_NoTaskOutlivesCall == CallEnded => (queue = << >> /\ Waiting = 0 /\ flight = {})


(***************************************************************************)
(* Several instances of MakeItQuote.  The three lru_cache decorators sit   *)
(* on the methods of the class, so that every instance reads and writes    *)
(* the same three caches under keys that begin with the instance; the      *)
(* dicts of __init__ belong to the instance.  The instance Self renders as *)
(* in Spec; every other instance is constructed and renders once, with     *)
(* random assets and the style modern, in the order of construction.       *)
(***************************************************************************)
MaxInstances == RandomBgCacheSize + 1

(* random.choice of another instance: a file that can be read, if any *)
OtherPick(cands) ==
    IF cands = {} THEN NoneV
    ELSE IF \E f \in cands : Decodable(f)
         THEN CHOOSE f \in cands : Decodable(f)
         ELSE CHOOSE f \in cands : TRUE

(* MakeItQuote(): __init__ creates the executor and the dicts of the new   *)
(* instance and touches no cache of the class                              *)
Construct ==
    /\ ~Blocked
    /\ instances < MaxInstances
    /\ instances > Self => LruHit(fontPin, instances)
    /\ instances' = instances + 1
    /\ UNCHANGED << envVars, cacheVars, seqVars, pc, cur, queue, prep, lineFut, fx, pixels,
                    flight, applied, loading, loads, shutdown, calls, botVars, panelVars >>

(* create_quote of another instance, as far as it reaches the caches of    *)
(* the class: the font (line 294), the background (line 302) and the       *)
(* gradient (lines 196-202; the dict of a new instance is empty)           *)
OtherRender(inst) ==
    /\ ~Blocked
    /\ inst # Self
    /\ ~LruHit(fontPin, inst)
    /\ LET font == GetRandomFont(Store, inst, OtherPick(FontCandidates(fontDir)))
           bg == GetRandomBackground(font.S, inst, OtherPick(BackgroundCandidates(bgDir)))
           grad == CreateGradientOverlay(bg.S, inst, BaseSize, 0 - inst)
       IN  /\ font.err = NoErr
           /\ bg.err = NoErr
           /\ fontPin' = grad.S.fontPin
           /\ bgPin' = grad.S.bgPin
           /\ gradLru' = grad.S.gradLru
    /\ UNCHANGED << gradDict, fontCache, gradStat, randoms, pinned, envVars, seqVars, poolVars >>

InstCalls == { << Base, "none" >>, << [Base EXCEPT !.background = "user"], "none" >> }

NextInst ==
    \/ /\ serial < MaxRenders
       /\ \E call \in InstCalls, fontPick \in FontPicks, bgPick \in BgPicks :
            CreateQuote(call[1], fontPick, bgPick, call[2])
    \/ Construct
    \/ OtherRender(instances)

SpecInst == Init /\ [][NextInst]_vars

(* a step of another instance: the calls of Self advance serial *)
SelfPins(bp, fp) ==
    << IF LruHit(bp, Self) THEN LruValue(bp, Self) ELSE NoneV,
       IF LruHit(fp, Self) THEN LruValue(fp, Self) ELSE NoneV >>

(* C25: no operation on another instance (its construction, a render with  *)
(* it) changes or discards the background and font pinned for the instance *)
(* Self or a gradient in the dict of Self.                                 *)
C25_OthersLeaveSelf ==
    [][serial' = serial => (SelfPins(bgPin', fontPin') = SelfPins(bgPin, fontPin)
                            /\ gradDict' = gradDict)]_vars

(* the part of C25 about the gradients of the dict *)
OthersLeaveGradients == [][serial' = serial => gradDict' = gradDict]_vars

(* the gradients of Self in the lru_cache of the class *)
SelfGradientKeys(c) == { k \in LruKeys(c) : k[1] = Self }
OthersLeaveGradientLru ==
    [][serial' = serial => SelfGradientKeys(gradLru) \subseteq SelfGradientKeys(gradLru')]_vars


(* a call that ended in the failure of the listing of an asset directory *)
SelectionFailed(call, at) ==
    /\ call.kind = "error"
    /\ RootCause(call.err) = [type |-> "FileNotFoundError", at |-> at]

(* the pin of Self is a file of the listing cands, and the call used it *)
SelectedFrom(pin, cands, used) ==
    LruHit(pin, Self) /\ LruValue(pin, Self) \in cands /\ used = LruValue(pin, Self)

(* C26: a failed selection is not memoized.  After a call that failed      *)
(* because the background or the font directory listed no usable file the  *)
(* instance has no pin for that asset; and a call made without a pin when  *)
(* the directory lists a usable file does not fail in the selection: it    *)
(* pins a file of the listing and goes on with it.                         *)
C26_FailureNotMemoized ==
    /\ [](SelectionFailed(last, "get_random_background") => ~LruHit(bgPin, Self))
    /\ [](SelectionFailed(last, "get_random_font") => ~LruHit(fontPin, Self))
    /\ [][(serial' = serial + 1 /\ last'.randomFont /\ ~LruHit(fontPin, Self)
             /\ FontCandidates(fontDir) # {})
           => (/\ ~SelectionFailed(last', "get_random_font")
               /\ SelectedFrom(fontPin', FontCandidates(fontDir), last'.fontPath))]_vars
    /\ [][(serial' = serial + 1 /\ last'.randomBg /\ ~LruHit(bgPin, Self)
             /\ BackgroundCandidates(bgDir) # {})
           => (/\ ~SelectionFailed(last', "get_random_background")
               /\ (last'.bgPath # NoneV
                     => SelectedFrom(bgPin', BackgroundCandidates(bgDir), last'.bgPath)))]_vars

(* a listing of the backgrounds failed and a later call has drawn a file   *)
(* of the directory and returned an image                                  *)
C26_Witness ==
    /\ randoms.bgMiss
    /\ last.kind = "image"
    /\ last.randomBg
    /\ ~last.bgPinned
    /\ SelectedFrom(bgPin, BackgroundCandidates(bgDir), last.bgPath)


(* C27, as claimed: for every initial size of at least 1, text and canvas, *)
(* the size that _calculate_optimal_font_size returns is not larger than   *)
(* the initial size.                                                       *)
C27_AtMostInitial ==
    (applied.op = "fit" /\ applied.out.err = NoErr /\ FitArgs.initial >= 1)
        => applied.out.size <= FitArgs.initial

(* C27: the size returned is not larger than the initial size or, for an   *)
(* initial size below the minimum font size 20, than that minimum.         *)
C27_AtMostInitialOrMinimum ==
    (applied.op = "fit" /\ applied.out.err = NoErr /\ FitArgs.initial >= 1)
        => applied.out.size <= SetMax({FitArgs.initial, MinFontSize})

(* a call with an initial size below the minimum has returned *)
C27_Witness ==
    /\ applied.op = "fit"
    /\ applied.out.err = NoErr
    /\ FitArgs.initial >= 1
    /\ FitArgs.initial < MinFontSize
    /\ applied.out.size = MinFontSize


(***************************************************************************)
(* bot.py: the check that every prefix command and every slash command     *)
(* passes before it runs.  The table prohibited_channels holds pairs of    *)
(* TEXT values; its rows are written through other connections.  A         *)
(* database operation may raise (the file is locked, unreadable or         *)
(* missing): dbFault names the operation that raises during a check.       *)
(***************************************************************************)
(* ctx.guild of an invocation outside a guild *)
NoGuild == 0
Guilds == {1, 2}
Channels == {10, 11}
Users == {7, 8}
CommandNames == {NoneV, "set_mute_channel", "miq"}
DevUserIds == {NoneV, "7"}
DbFaults == {"none", "connect", "create", "select"}
TableRows == { << ToString(g), ToString(c) >> : g \in {1}, c \in Channels }

notBot == << envVars, cacheVars, seqVars, pc, cur, queue, prep, lineFut, fx, pixels, flight,
             applied, loading, loads, shutdown, calls, instances, panelVars >>

(* DatabaseManager.initialize: the connection is stored before the table   *)
(* is created                                                              *)
InitializeDb(c, dbFault) ==
    IF dbFault = "connect" THEN [raised |-> TRUE, conn |-> c]
    ELSE IF dbFault = "create" THEN [raised |-> TRUE, conn |-> "open"]
    ELSE [raised |-> FALSE, conn |-> "open"]

(* DatabaseManager.is_channel_prohibited: every exception is logged and    *)
(* answered with False                                                     *)
IsChannelProhibited(c, rows, guildId, channelId, dbFault) ==
    LET init == IF c = NoneV THEN InitializeDb(c, dbFault)
                ELSE [raised |-> FALSE, conn |-> c]
    IN  IF init.raised \/ dbFault = "select" THEN [val |-> FALSE, conn |-> init.conn]
        ELSE [val |-> << ToString(guildId), ToString(channelId) >> \in rows,
              conn |-> init.conn]

(* the check has answered: what it was asked, what the table held, what    *)
(* it returned and what it sent                                            *)
Checked(kind, inv, dbFault, result, sent, c) ==
    /\ checked' = [kind |-> kind, guild |-> inv.guild, channel |-> inv.channel,
                   command |-> inv.command, user |-> inv.user, dbFault |-> dbFault,
                   listed |-> /\ inv.guild # NoGuild
                              /\ << ToString(inv.guild), ToString(inv.channel) >>
                                     \in prohibited,
                   result |-> result, sent |-> sent]
    /\ conn' = c
    /\ UNCHANGED << prohibited, notBot >>

(* the checks after the tests of guild and command name *)
CheckChannel(kind, inv, dbFault) ==
    LET r == IsChannelProhibited(conn, prohibited, inv.guild, inv.channel, dbFault)
    IN  IF r.val THEN Checked(kind, inv, dbFault, FALSE, "prohibited_channel", r.conn)
        ELSE Checked(kind, inv, dbFault, TRUE, NoneV, r.conn)

(* SwiftlyBot.check_command_permissions *)
CheckCommandPermissions(ctx, dbFault) ==
    IF ctx.guild = NoGuild THEN Checked("prefix", ctx, "none", TRUE, NoneV, conn)
    ELSE IF ctx.command = "set_mute_channel"
    THEN Checked("prefix", ctx, "none", TRUE, NoneV, conn)
    ELSE CheckChannel("prefix", ctx, dbFault)

(* SwiftlyBot.check_slash_command *)
CheckSlashCommand(interaction, devUserId, dbFault) ==
    IF devUserId # NoneV /\ ToString(interaction.user) # devUserId
    THEN Checked("slash", interaction, "none", FALSE, "developer_only", conn)
    ELSE IF interaction.guild = NoGuild
    THEN Checked("slash", interaction, "none", TRUE, NoneV, conn)
    ELSE IF interaction.command = "set_mute_channel"
    THEN Checked("slash", interaction, "none", TRUE, NoneV, conn)
    ELSE CheckChannel("slash", interaction, dbFault)

(* SwiftlyBot.setup_hook: await self.db.initialize() *)
SetupHook(dbFault) ==
    /\ dbFault \in {"none", "connect", "create"}
    /\ conn' = InitializeDb(conn, dbFault).conn
    /\ conn' # conn
    /\ UNCHANGED << prohibited, checked, notBot >>

(* DatabaseManager.cleanup *)
Cleanup ==
    /\ conn # NoneV
    /\ conn' = NoneV
    /\ UNCHANGED << prohibited, checked, notBot >>

(* a row is added to or deleted from prohibited_channels *)
TableChanged(row) ==
    /\ prohibited' = IF row \in prohibited THEN prohibited \ {row}
                      ELSE prohibited \cup {row}
    /\ UNCHANGED << conn, checked, notBot >>

Invocations ==
    [guild : Guilds \cup {NoGuild}, channel : Channels, command : CommandNames, user : Users]

NextBot ==
    \/ \E dbFault \in DbFaults : SetupHook(dbFault)
    \/ Cleanup
    \/ \E row \in TableRows : TableChanged(row)
    \/ \E ctx \in Invocations, dbFault \in DbFaults : CheckCommandPermissions(ctx, dbFault)
    \/ \E interaction \in Invocations, devUserId \in DevUserIds, dbFault \in DbFaults :
          CheckSlashCommand(interaction, devUserId, dbFault)

SpecBot == Init /\ [][NextBot]_vars

(* an invocation the claim is about *)
InProhibitedChannel ==
    /\ checked.kind \in {"prefix", "slash"}
    /\ checked.listed
    /\ checked.command # "set_mute_channel"

(* C28: for every prefix or slash command invoked in a guild channel that  *)
(* is recorded in prohibited_channels the check returns False, whatever    *)
(* the state of the database connection, unless the command is             *)
(* set_mute_channel (or the invocation is outside a guild).                *)
C28_ProhibitedNeverRuns == InProhibitedChannel => checked.result = FALSE

(* the same while no database operation raises *)
ProhibitedRefusedWhileDbAnswers ==
    (InProhibitedChannel /\ checked.dbFault = "none") => checked.result = FALSE


(***************************************************************************)
(* cogs/role-panel.py: the commands that change the panels.  The commands  *)
(* are coroutines of one event loop: a command runs from one await to the  *)
(* next without interruption, and other commands run while it awaits       *)
(* Discord.  panels.obj holds every panel dict made so far, by message id, *)
(* and panels.live the ids that are keys of self.panels: a command that    *)
(* bound panel_data before the panel was deleted still writes to the dict. *)
(* The answers of Discord and the outcome of writing the data file are     *)
(* inputs of the steps.                                                    *)
(***************************************************************************)
MaxCmds == 3
MaxPanels == 2

PanelIds == 1..MaxPanels
PanelArgs == { ToString(p) : p \in PanelIds } \cup {"x"}
Emojis == {"A", "B"}
RoleIds == {5}
PanelChannel == 10
WriteOutcomes == {"ok", "refused", "torn"}

(* int(panel_id): the id, or 0 for a ValueError *)
ParseInt(arg) ==
    IF \E p \in PanelIds : ToString(p) = arg
    THEN CHOOSE p \in PanelIds : ToString(p) = arg
    ELSE 0

(* self.panels *)
Memory == [p \in panels.live |-> panels.obj[p]]
MemoryOf(ps) == [p \in ps.live |-> ps.obj[p]]

(* json.dump writes the integer keys of self.panels as strings *)
JsonDump(mem) == [k \in { ToString(p) : p \in DOMAIN mem } |-> mem[ParseInt(k)]]

(* _save_panels: an exception of makedirs or open leaves the file as it    *)
(* was, one of json.dump leaves it cut short; both are printed only        *)
SavePanels(ps, file, write) ==
    IF write = "ok"
    THEN [state |-> "json", data |-> JsonDump(MemoryOf(ps)), lastWrite |-> "ok"]
    ELSE IF write = "torn" THEN [state |-> "corrupt", data |-> EmptyMap, lastWrite |-> "torn"]
    ELSE [file EXCEPT !.lastWrite = "refused"]

(* _load_panels after self.panels = {}: the keys are converted with int;   *)
(* a file that does not parse gives {}                                     *)
LoadPanels(file) ==
    IF file.state = "json"
    THEN [p \in { ParseInt(k) : k \in DOMAIN file.data } |-> file.data[ToString(p)]]
    ELSE EmptyMap

notPanel == << envVars, cacheVars, seqVars, pc, cur, queue, prep, lineFut, fx, pixels, flight,
               applied, loading, loads, shutdown, calls, instances, botVars >>

Without(roles, emoji) == [e \in DOMAIN roles \ {emoji} |-> roles[e]]

At(c, at) == cmds' = [cmds EXCEPT ![c].at = at]

(* the panels are as ps, and the command c has saved them *)
Stored(c, ps, write) ==
    /\ panels' = ps
    /\ dataFile' = SavePanels(ps, dataFile, write)
    /\ At(c, "done")
    /\ UNCHANGED notPanel

Left(c, at) == At(c, at) /\ UNCHANGED << panels, dataFile, notPanel >>

(* a command is invoked and runs to its first await *)
StartCommand(op, arg, emoji, role) ==
    LET id == ParseInt(arg)
        cmd == [op |-> op, id |-> id, emoji |-> emoji, role |-> role]
        known == id \in panels.live
        at == IF op = "create" THEN "sending"
              ELSE IF ~known THEN "returned"
              ELSE IF op = "remove" /\ emoji \notin DOMAIN panels.obj[id].roles
              THEN "returned"
              ELSE "deferred"
    IN  /\ Len(cmds) < MaxCmds
        /\ op = "create" => (arg = "x" /\ Cardinality(DOMAIN panels.obj) < MaxPanels)
        /\ cmds' = Append(cmds, [op |-> op, id |-> id, emoji |-> emoji, role |-> role,
                                  at |-> at])
        /\ UNCHANGED << panels, dataFile, notPanel >>

(* create_panel after interaction.channel.send, lines 71-80 *)
CreateStore(c, sent, write) ==
    LET id == Cardinality(DOMAIN panels.obj) + 1
        panel == [channel_id |-> PanelChannel, roles |-> EmptyMap]
    IN  /\ cmds[c].op = "create" /\ cmds[c].at = "sending"
        /\ IF ~sent \/ id > MaxPanels THEN Left(c, "raised")
           ELSE /\ cmds' = [cmds EXCEPT ![c].at = "done", ![c].id = id]
                /\ panels' = [live |-> panels.live \cup {id},
                              obj |-> (id :> panel) @@ panels.obj]
                /\ dataFile' = SavePanels(panels', dataFile, write)
                /\ UNCHANGED notPanel

(* add_role and delete_panel after defer: self.panels[panel_id], lines     *)
(* 117 and 243                                                             *)
BindPanel(c) ==
    /\ cmds[c].op \in {"add", "delete"} /\ cmds[c].at = "deferred"
    /\ Left(c, IF cmds[c].id \in panels.live THEN "bound" ELSE "raised")

(* add_role after message.add_reaction, lines 120-138 *)
AddStore(c, reacted, write) ==
    LET cmd == cmds[c]
    IN  /\ cmd.op = "add" /\ cmd.at = "bound"
        /\ IF ~reacted THEN Left(c, "returned")
           ELSE Stored(c, [panels EXCEPT !.obj[cmd.id].roles =
                                     (cmd.emoji :> cmd.role) @@ Without(@, cmd.emoji)],
                       write)

(* remove_role after get_or_fetch_message, lines 189-197 *)
RemoveStore(c, found, write) ==
    LET cmd == cmds[c]
    IN  /\ cmd.op = "remove" /\ cmd.at = "deferred"
        /\ IF ~found THEN Left(c, "returned")
           ELSE IF cmd.emoji \notin DOMAIN panels.obj[cmd.id].roles THEN Left(c, "raised")
           ELSE Stored(c, [panels EXCEPT !.obj[cmd.id].roles = Without(@, cmd.emoji)], write)

(* delete_panel after message.delete, lines 246-254 *)
DeleteStore(c, write) ==
    LET cmd == cmds[c]
    IN  /\ cmd.op = "delete" /\ cmd.at = "bound"
        /\ IF cmd.id \notin panels.live THEN Left(c, "raised")
           ELSE Stored(c, [panels EXCEPT !.live = @ \ {cmd.id}], write)

PanelOps == {"create", "add", "remove", "delete"}

NextPanel ==
    \/ \E op \in PanelOps, arg \in PanelArgs, emoji \in Emojis, role \in RoleIds :
          StartCommand(op, arg, emoji, role)
    \/ \E c \in DOMAIN cmds, sent \in BOOLEAN, write \in WriteOutcomes :
          CreateStore(c, sent, write)
    \/ \E c \in DOMAIN cmds : BindPanel(c)
    \/ \E c \in DOMAIN cmds, reacted \in BOOLEAN, write \in WriteOutcomes :
          AddStore(c, reacted, write)
    \/ \E c \in DOMAIN cmds, found \in BOOLEAN, write \in WriteOutcomes :
          RemoveStore(c, found, write)
    \/ \E c \in DOMAIN cmds, write \in WriteOutcomes : DeleteStore(c, write)

SpecPanel == Init /\ [][NextPanel]_vars

(* a command that changed the panels has completed *)
ChangeCompleted == \E c \in DOMAIN cmds : cmds[c].at = "done"

(* C29: after any completed create, add, remove or delete the panels that  *)
(* _load_panels reads from the data file are the panels in memory, with    *)
(* the same roles, also when the commands interleave at their awaits.      *)
C29_PersistedEqualsMemory == ChangeCompleted => LoadPanels(dataFile) = Memory

(* the same while the last write of the data file has not failed *)
PersistedWhenWritten ==
    dataFile.lastWrite \in {"none", "ok"} => LoadPanels(dataFile) = Memory

(* an add_role that wrote to the dict of a panel deleted meanwhile *)
OrphanWritten ==
    \E c \in DOMAIN cmds :
        /\ cmds[c].op = "add" /\ cmds[c].at = "done"
        /\ cmds[c].id \notin panels.live
NoOrphanWritten == ~OrphanWritten


====
